---- MODULE Spec2Model ----
(***************************************************************************)
(* Model of the Modbus polling client of zelos-extension-modbus:           *)
(* register catalogue (register_map.py), value codec and ModbusClient      *)
(* (client.py).  The poll loop (_run_async) runs on the main thread; the   *)
(* SDK actions run on another thread, each through its own asyncio.run,    *)
(* so the two interleave at every await and share the client's fields.     *)
(***************************************************************************)
EXTENDS Integers, Sequences, FiniteSets, TLC

(***************************************************************************)
(* Bounds of the model.                                                    *)
(***************************************************************************)
MaxCount == 2

(***************************************************************************)
(* register_map.py                                                         *)
(***************************************************************************)
REGISTER_TYPES == {"coil", "discrete_input", "input", "holding"}

DATATYPE_NAMES == {"bool", "uint16", "int16", "uint32", "int32", "float32",
                   "uint64", "int64", "float64"}

DATATYPES(dt) ==
    CASE dt \in {"bool", "uint16", "int16"} -> 1
      [] dt \in {"uint32", "int32", "float32"} -> 2
      [] dt \in {"uint64", "int64", "float64"} -> 4

BYTE_ORDERS == {"big", "little", "big_swap", "little_swap"}

\* dict.get(key, default) on a document entry
Get(d, key, default) == IF key \in DOMAIN d THEN d[key] ELSE default

\* The Register(...) call of from_dict: every optional field read with .get
RegisterArgs(reg_data) ==
    [address    |-> reg_data["address"],
     name       |-> reg_data["name"],
     type       |-> Get(reg_data, "type", "holding"),
     datatype   |-> Get(reg_data, "datatype", "uint16"),
     unit       |-> Get(reg_data, "unit", ""),
     scale      |-> Get(reg_data, "scale", 1),
     byte_order |-> Get(reg_data, "byte_order", "big"),
     description |-> Get(reg_data, "description", ""),
     writable   |-> Get(reg_data, "writable", TRUE)]

\* the slip of a __post_init__ that checks the register type only
RegisterValid_type(r) == r.type \in REGISTER_TYPES

\* Register.__post_init__: the three membership checks
RegisterValid(r) ==
    /\ r.type \in REGISTER_TYPES
    /\ r.datatype \in DATATYPE_NAMES
    /\ r.byte_order \in BYTE_ORDERS

\* the slip of a __post_init__ that keeps the writable it was given
PostInit_keep(r) == r

\* Register.__post_init__: input and discrete_input are forced read-only
PostInit(r) ==
    IF r.type \in {"input", "discrete_input"}
    THEN [r EXCEPT !.writable = FALSE]
    ELSE r

\* Register.count
RegCount(r) == IF r.datatype \in DATATYPE_NAMES THEN DATATYPES(r.datatype) ELSE 1

\* RegisterMap.from_dict on a document given as a sequence of
\* [event, regs] entries (a dict keeps insertion order)
from_dict(doc) ==
    [loaded |-> TRUE,
     events |-> [g \in 1..Len(doc) |->
                   [event |-> doc[g].event,
                    regs  |-> [i \in 1..Len(doc[g].regs) |->
                                 PostInit(RegisterArgs(doc[g].regs[i]))]]]]

\* ModbusClient(register_map=None)
NoMap == [loaded |-> FALSE, events |-> << >>]

RECURSIVE FlatFrom(_, _)
FlatFrom(events, g) ==
    IF g > Len(events) THEN << >>
    ELSE events[g].regs \o FlatFrom(events, g + 1)

\* RegisterMap.registers
Registers(rm) == FlatFrom(rm.events, 1)

\* the slip of a lookup that keeps the last match
get_by_name_last(rm, name) ==
    LET regs == Registers(rm)
        hits == {i \in 1..Len(regs) : regs[i].name = name}
    IN IF hits = {} THEN 0 ELSE CHOOSE i \in hits : \A j \in hits : i >= j

\* RegisterMap.get_by_name: index of the first match in the flat order, 0 for None
get_by_name(rm, name) ==
    LET regs == Registers(rm)
        hits == {i \in 1..Len(regs) : regs[i].name = name}
    IN IF hits = {} THEN 0 ELSE CHOOSE i \in hits : \A j \in hits : i <= j

\* the slip of listing every register as writable
writable_registers_all(rm) == Registers(rm)

\* RegisterMap.writable_registers
writable_registers(rm) == SelectSeq(Registers(rm), LAMBDA r : r.writable)

(***************************************************************************)
(* The documents the client is started with.                               *)
(***************************************************************************)
DemoDoc ==
    << [event |-> "sensors",
        regs  |-> << [address |-> 0, name |-> "temp"],
                     [address |-> 1, name |-> "humidity", type |-> "input"] >>],
       [event |-> "controls",
        regs  |-> << [address |-> 0, name |-> "relay", type |-> "coil",
                      datatype |-> "bool"],
                     [address |-> 2, name |-> "limit", writable |-> FALSE] >>] >>

SmallDoc ==
    << [event |-> "sensors",
        regs  |-> << [address |-> 0, name |-> "temp"],
                     [address |-> 1, name |-> "humidity", type |-> "input"] >>] >>

Catalogues == {NoMap, from_dict(DemoDoc)}
SmallCatalogues == {NoMap, from_dict(SmallDoc)}

Names == {"temp", "humidity", "nonexistent"}

(***************************************************************************)
(* client.py: the value codec.  Values are records [k, v]: k = "none" for  *)
(* Python's None, "bool" (v in {0,1}) or "int".  A scale is an integer.    *)
(***************************************************************************)
None == [k |-> "none", v |-> 0]
IntVal(n) == [k |-> "int", v |-> n]
BoolVal(b) == [k |-> "bool", v |-> IF b THEN 1 ELSE 0]
\* a float32 value, given by its IEEE-754 bit pattern (sign bit clear)
F32Val(bits) == [k |-> "f32", v |-> bits]
\* a float64 value, given by the four words of its IEEE-754 bit pattern
F64Val(words) == [k |-> "f64", v |-> words]
\* a 64-bit integer beyond 32 bits, given by its four words, most significant
\* first (as unpack(">Q") or unpack(">q") reads them)
BigVal(words) == [k |-> "big", v |-> words]

\* int(x / y): Python's int() truncates toward zero
TruncDiv(x, y) ==
    LET q == (IF x >= 0 THEN x ELSE -x) \div (IF y >= 0 THEN y ELSE -y)
    IN IF (x < 0) = (y < 0) THEN q ELSE -q

\* the slip of rotating four words under little_swap
_reorder_registers_rotated(registers, byte_order) ==
    IF Len(registers) <= 1 THEN registers
    ELSE CASE byte_order = "big" -> registers
           [] byte_order = "little" ->
                [i \in 1..Len(registers) |-> registers[Len(registers) + 1 - i]]
           [] byte_order = "big_swap" ->
                IF Len(registers) = 2 THEN <<registers[2], registers[1]>>
                ELSE IF Len(registers) = 4
                     THEN <<registers[2], registers[1], registers[4], registers[3]>>
                     ELSE registers
           [] byte_order = "little_swap" ->
                IF Len(registers) = 2 THEN <<registers[2], registers[1]>>
                ELSE IF Len(registers) = 4
                     THEN <<registers[2], registers[3], registers[4], registers[1]>>
                     ELSE registers
           [] OTHER -> registers

\* the slip of reversing the words for every order but "big"
_reorder_registers_reversed(registers, byte_order) ==
    IF Len(registers) <= 1 \/ byte_order = "big" THEN registers
    ELSE [i \in 1..Len(registers) |-> registers[Len(registers) + 1 - i]]

_reorder_registers(registers, byte_order) ==
    IF Len(registers) <= 1 THEN registers
    ELSE CASE byte_order = "big" -> registers
           [] byte_order = "little" ->
                [i \in 1..Len(registers) |-> registers[Len(registers) + 1 - i]]
           [] byte_order = "big_swap" ->
                IF Len(registers) = 2 THEN <<registers[2], registers[1]>>
                ELSE IF Len(registers) = 4
                     THEN <<registers[2], registers[1], registers[4], registers[3]>>
                     ELSE registers
           [] byte_order = "little_swap" ->
                IF Len(registers) = 2 THEN <<registers[2], registers[1]>>
                ELSE IF Len(registers) = 4
                     THEN <<registers[4], registers[3], registers[2], registers[1]>>
                     ELSE registers
           [] OTHER -> registers

\* _reorder_registers with its third parameter: no statement of the body
\* reads for_decode
_reorder_registers_for(registers, byte_order, for_decode) ==
    _reorder_registers(registers, byte_order)

\* the slip of unpacking with ">H" where ">h" is meant
Signed16_unsigned(w) == w

\* struct.unpack(">h", struct.pack(">H", w))
Signed16(w) == IF w >= 32768 THEN w - 65536 ELSE w

\* the slip of decoding the words as they come, whatever the byte order
decode_value_unordered(registers, datatype, scale, byte_order) ==
    LET regs == registers
    IN CASE datatype = "bool"   -> BoolVal(regs[1] # 0)
         [] datatype = "uint16" -> IntVal(regs[1] * scale)
         [] datatype = "int16"  -> IntVal(Signed16(regs[1]) * scale)
         [] datatype = "uint32" -> IntVal((regs[1] * 65536 + regs[2]) * scale)
         [] datatype = "int32"  ->
              IntVal((Signed16(regs[1]) * 65536 + regs[2]) * scale)
         [] datatype = "float32" -> F32Val(regs[1] * 65536 + regs[2])
         [] datatype = "uint64" ->
              IF regs[1] = 0 /\ regs[2] = 0 /\ regs[3] < 32768
              THEN IntVal((regs[3] * 65536 + regs[4]) * scale)
              ELSE BigVal(<<regs[1], regs[2], regs[3], regs[4]>>)
         [] datatype = "int64" ->
              IF regs[1] = 0 /\ regs[2] = 0 /\ regs[3] < 32768
              THEN IntVal((regs[3] * 65536 + regs[4]) * scale)
              ELSE IF regs[1] = 65535 /\ regs[2] = 65535 /\ regs[3] >= 32768
              THEN IntVal((Signed16(regs[3]) * 65536 + regs[4]) * scale)
              ELSE BigVal(<<regs[1], regs[2], regs[3], regs[4]>>)
         [] datatype = "float64" -> F64Val(<<regs[1], regs[2], regs[3], regs[4]>>)
         [] OTHER -> IntVal(regs[1])

\* decode_value.  For float32 and float64 at scale 1: struct.pack(">HH")
\* then unpack(">f") joins the words into the bit pattern.  A 64-bit integer
\* within 32 bits is an integer, and beyond them (at scale 1) its words.
decode_value(registers, datatype, scale, byte_order) ==
    LET regs == _reorder_registers(registers, byte_order)
    IN CASE datatype = "bool"   -> BoolVal(regs[1] # 0)
         [] datatype = "uint16" -> IntVal(regs[1] * scale)
         [] datatype = "int16"  -> IntVal(Signed16(regs[1]) * scale)
         [] datatype = "uint32" -> IntVal((regs[1] * 65536 + regs[2]) * scale)
         [] datatype = "int32"  ->
              IntVal((Signed16(regs[1]) * 65536 + regs[2]) * scale)
         [] datatype = "float32" -> F32Val(regs[1] * 65536 + regs[2])
         [] datatype = "uint64" ->
              IF regs[1] = 0 /\ regs[2] = 0 /\ regs[3] < 32768
              THEN IntVal((regs[3] * 65536 + regs[4]) * scale)
              ELSE BigVal(<<regs[1], regs[2], regs[3], regs[4]>>)
         [] datatype = "int64" ->
              IF regs[1] = 0 /\ regs[2] = 0 /\ regs[3] < 32768
              THEN IntVal((regs[3] * 65536 + regs[4]) * scale)
              ELSE IF regs[1] = 65535 /\ regs[2] = 65535 /\ regs[3] >= 32768
              THEN IntVal((Signed16(regs[3]) * 65536 + regs[4]) * scale)
              ELSE BigVal(<<regs[1], regs[2], regs[3], regs[4]>>)
         [] datatype = "float64" -> F64Val(<<regs[1], regs[2], regs[3], regs[4]>>)
         [] OTHER -> IntVal(regs[1])

\* encode_value; ok = FALSE is struct.error.  A float32 value is given by
\* its bit pattern, a float64 value by the four words of its bit pattern, an
\* integer value is within 32 bits.
encode_value(value, datatype, scale, byte_order) ==
    LET scaled == IF scale # 0 THEN TruncDiv(value, scale) ELSE value
        regs ==
          CASE datatype = "bool"   -> [ok |-> TRUE, regs |-> <<IF value # 0 THEN 1 ELSE 0>>]
            [] datatype = "uint16" -> [ok |-> TRUE, regs |-> <<scaled % 65536>>]
            [] datatype = "int16"  ->
                 IF scaled < -32768 \/ scaled > 32767
                 THEN [ok |-> FALSE, regs |-> << >>]
                 ELSE [ok |-> TRUE, regs |-> <<scaled % 65536>>]
            [] datatype = "uint32" ->
                 IF scaled < 0
                 THEN [ok |-> FALSE, regs |-> << >>]
                 ELSE [ok |-> TRUE, regs |-> <<scaled \div 65536, scaled % 65536>>]
            [] datatype = "int32"  ->
                 [ok |-> TRUE,
                  regs |-> <<(scaled \div 65536) % 65536, scaled % 65536>>]
            [] datatype = "float32" ->
                 [ok |-> TRUE, regs |-> <<value \div 65536, value % 65536>>]
            [] datatype = "uint64" ->
                 IF scaled < 0
                 THEN [ok |-> FALSE, regs |-> << >>]
                 ELSE [ok |-> TRUE,
                       regs |-> <<0, 0, scaled \div 65536, scaled % 65536>>]
            [] datatype = "int64" ->
                 [ok |-> TRUE,
                  regs |-> <<IF scaled < 0 THEN 65535 ELSE 0,
                             IF scaled < 0 THEN 65535 ELSE 0,
                             (scaled \div 65536) % 65536, scaled % 65536>>]
            [] datatype = "float64" -> [ok |-> TRUE, regs |-> value]
            [] OTHER -> [ok |-> TRUE, regs |-> <<value % 65536>>]
    IN IF regs.ok
       THEN [ok |-> TRUE, regs |-> _reorder_registers(regs.regs, byte_order)]
       ELSE regs

(***************************************************************************)
(* The transport boundary.  A transport object is one pymodbus client      *)
(* instance; its state is "new" (created), "up" (connected is True),       *)
(* "down" (link lost) or "closed".  tstate.cur is the state of the object  *)
(* self._client refers to ("none" while it is None).  A thread that        *)
(* replaces self._client has no call in flight, so at most one replaced    *)
(* object is still held by a call in flight, the other thread's:           *)
(* tstate.det is its state ("free" when there is none).  A call in flight  *)
(* is on "cur" or on "det".  The text of an exception is the set of        *)
(* indicator phrases that its lower-cased message contains.                *)
(***************************************************************************)
Threads == {"loop", "act"}
Other(p) == IF p = "loop" THEN "act" ELSE "loop"
NoCall == [op |-> "none", on |-> "none"]
NoTransports == [cur |-> "none", det |-> "free"]

MsgConnectionRefused == {"connection", "refused"}
MsgInvalidAddress == {}
\* str(ConnectionException(...)) is "Modbus Error: [Connection] ..."
MsgModbusConnection == {"connection"}
Messages == {MsgConnectionRefused, MsgInvalidAddress, MsgModbusConnection}

\* what a transport call can come back with
ConnectOutcomes == {"ok", "fail", "exc"}
IoOutcomes == [kind : {"ok", "error", "modbus_exc", "exc"}, msg : Messages]

Addrs == 0..2
WriteValues == {1}
RejectedValues == {0, 999, 70000}

VARIABLES register_map, running, connected, client, poll_count, error_count,
          source, tstate, inflight, store,
          pc, pg, pi, results, event_results, sink, reads, ev, slept,
          apc, aop, aresult, stopCalled,
          boot, probe, simstore, simgen, simcli

vars == <<register_map, running, connected, client, poll_count, error_count,
          source, tstate, inflight, store,
          pc, pg, pi, results, event_results, sink, reads, ev, slept,
          apc, aop, aresult, stopCalled,
          boot, probe, simstore, simgen, simcli>>

\* the entry point that built the client (boot), the pure function applied
\* last (probe), and the demo simulator with a client of it (sim*)
auxVars == <<boot, probe, simstore, simgen, simcli>>
simVars == <<simstore, simgen, simcli>>

clientVars == <<running, connected, client, poll_count, error_count, source>>
\* slept: an asyncio.sleep of _run_async has returned since the last tick
\* started
loopVars == <<pc, pg, pi, results, event_results, sink, reads, ev, slept>>
actVars == <<apc, aop, aresult>>
netVars == <<tstate, inflight>>

EmptyDict == [n \in {} |-> None]

\* an operation of the action thread, and what it returned to its caller
NoReg == [address |-> 0, name |-> "", type |-> "none", datatype |-> "uint16",
          scale |-> 1, byte_order |-> "big", writable |-> FALSE]

NoOp == [kind |-> "none", name |-> "", reg |-> NoReg, value |-> 0]

Result(op, outcome, error, value) ==
    [op |-> op, outcome |-> outcome, error |-> error, value |-> value]

NoResult == Result(NoOp, "none", FALSE, None)
NoEvent == [kind |-> "none", msg |-> {}]

Min(a, b) == IF a < b THEN a ELSE b

\* create_demo_context, cut down to the cells the catalogue addresses
InitStore ==
    [h |-> [a \in Addrs |-> 0],
     i |-> [a \in Addrs |-> IF a = 1 THEN 7 ELSE 0],
     c |-> [a \in Addrs |-> 0],
     d |-> [a \in Addrs |-> 0]]

\* ModbusClient.__init__
InitClient ==
    /\ running = FALSE
    /\ connected = FALSE
    /\ client = 0
    /\ poll_count = 0
    /\ error_count = 0
    /\ source = FALSE
    /\ tstate = NoTransports
    /\ inflight = [p \in Threads |-> NoCall]
    /\ store = InitStore
    /\ pc = "idle"
    /\ pg = 1
    /\ pi = 1
    /\ results = << >>
    /\ event_results = EmptyDict
    /\ sink = << >>
    /\ reads = << >>
    /\ ev = NoEvent
    /\ slept = FALSE
    /\ apc = "idle"
    /\ aop = NoOp
    /\ aresult = NoResult
    /\ stopCalled = FALSE

\* a client constructed directly, as the tests do: no entry point
NoBoot == [mode |-> "none", doc |-> << >>, state |-> "none"]

\* no pure function applied
NoProbe == [fn |-> "none"]

\* no demo simulator beside the client
NoSim ==
    /\ simstore = << >>
    /\ simgen = "off"
    /\ simcli = << >>

\* the client with the on-demand operations running beside the loop
Init ==
    /\ register_map \in SmallCatalogues
    /\ InitClient
    /\ boot = NoBoot
    /\ probe = NoProbe
    /\ NoSim

\* the client's loop alone, on the larger catalogue
InitLoop ==
    /\ register_map \in Catalogues
    /\ InitClient
    /\ boot = NoBoot
    /\ probe = NoProbe
    /\ NoSim

(***************************************************************************)
(* Transport objects: references, creation, close.                         *)
(***************************************************************************)
\* the state of the transport a call is on
StateOf(ts, on) == IF on = "cur" THEN ts.cur ELSE ts.det

SetState(ts, on, st) ==
    IF on = "cur" THEN [ts EXCEPT !.cur = st] ELSE [ts EXCEPT !.det = st]

\* the call of thread p has returned: a replaced transport that it alone
\* held is referred to by nothing any more
Released(ts, p) ==
    IF inflight[p].on = "det" THEN [ts EXCEPT !.det = "free"] ELSE ts

\* self._client.close()
Close(ts) == IF ts.cur = "none" THEN ts ELSE [ts EXCEPT !.cur = "closed"]

\* self._client.connected
ClientConnected(ts) == ts.cur = "up"

\* connect, run by thread p, up to its await: "self._client =
\* self._create_client()" replaces the object, which a call in flight of the
\* other thread keeps
connect(p, ts) ==
    LET q == Other(p)
        held == inflight[q].on = "cur"
    IN /\ client' = 1
       /\ inflight' = [inflight EXCEPT
                         ![p] = [op |-> "connect", on |-> "cur"],
                         ![q] = IF held THEN [@ EXCEPT !.on = "det"] ELSE @]
       /\ tstate' = [cur |-> "new", det |-> IF held THEN ts.cur ELSE ts.det]

\* _is_connection_error
connection_indicators ==
    {"connection", "timeout", "refused", "reset", "broken pipe", "no response",
     "disconnected", "not connected"}

\* the slip of leaving the first indicator out
_is_connection_error_short(msg) == msg \cap (connection_indicators \ {"connection"}) # {}

\* ModbusClient._is_connection_error: any(ind in error_str for ind in ...)
_is_connection_error(msg) == msg \cap connection_indicators # {}

(***************************************************************************)
(* Reading one register and accumulating one poll tick.                    *)
(***************************************************************************)
\* what the device returns for a read of count cells of one table
RawRead(st, table, address, count) == [j \in 1..count |-> st[table][address + j - 1]]

\* the slip of reading register.count bits of a coil or discrete input
read_register_value_count(register) ==
    CASE register.type = "holding" ->
           [does |-> "read_holding_registers", table |-> "h",
            address |-> register.address, count |-> RegCount(register)]
      [] register.type = "input" ->
           [does |-> "read_input_registers", table |-> "i",
            address |-> register.address, count |-> RegCount(register)]
      [] register.type = "coil" ->
           [does |-> "read_coils", table |-> "c",
            address |-> register.address, count |-> RegCount(register)]
      [] register.type = "discrete_input" ->
           [does |-> "read_discrete_inputs", table |-> "d",
            address |-> register.address, count |-> RegCount(register)]
      [] OTHER -> [does |-> "none", table |-> "h", address |-> 0, count |-> 0]

\* read_register_value: the transport read it makes, by the register's type
read_register_value(register) ==
    CASE register.type = "holding" ->
           [does |-> "read_holding_registers", table |-> "h",
            address |-> register.address, count |-> RegCount(register)]
      [] register.type = "input" ->
           [does |-> "read_input_registers", table |-> "i",
            address |-> register.address, count |-> RegCount(register)]
      [] register.type = "coil" ->
           [does |-> "read_coils", table |-> "c",
            address |-> register.address, count |-> 1]
      [] register.type = "discrete_input" ->
           [does |-> "read_discrete_inputs", table |-> "d",
            address |-> register.address, count |-> 1]
      [] OTHER -> [does |-> "none", table |-> "h", address |-> 0, count |-> 0]

\* read_register_value on a successful transport read
ReadValue(reg, st) ==
    CASE reg.type = "holding" ->
           decode_value(RawRead(st, "h", reg.address, RegCount(reg)),
                        reg.datatype, reg.scale, reg.byte_order)
      [] reg.type = "input" ->
           decode_value(RawRead(st, "i", reg.address, RegCount(reg)),
                        reg.datatype, reg.scale, reg.byte_order)
      [] reg.type = "coil" -> BoolVal(RawRead(st, "c", reg.address, 1)[1] # 0)
      [] reg.type = "discrete_input" -> BoolVal(RawRead(st, "d", reg.address, 1)[1] # 0)
      [] OTHER -> None

\* the slip "if value:" for "if value is not None:"
Accumulate_truthy(er, name, value) ==
    IF value # None /\ value.v # 0 THEN (name :> value) @@ er ELSE er

\* _poll_registers: "if value is not None: event_results[reg.name] = value"
Accumulate(er, name, value) ==
    IF value # None THEN (name :> value) @@ er ELSE er

\* the slip of creating event_results once, outside the loop over the groups
RECURSIVE Advance_shared(_, _, _, _, _)
Advance_shared(events, g, i, res, er) ==
    IF g > Len(events)
    THEN [g |-> g, i |-> 1, res |-> res, er |-> [n \in {} |-> None], done |-> TRUE]
    ELSE IF i > Len(events[g].regs)
         THEN Advance_shared(events, g + 1, 1,
                             IF DOMAIN er # {}
                             THEN Append(res, [event |-> events[g].event, values |-> er])
                             ELSE res,
                             er)
         ELSE [g |-> g, i |-> i, res |-> res, er |-> er, done |-> FALSE]

\* _poll_registers: move to the next register, closing every group that is
\* exhausted ("if event_results: results[event_name] = event_results")
RECURSIVE Advance(_, _, _, _, _)
Advance(events, g, i, res, er) ==
    IF g > Len(events)
    THEN [g |-> g, i |-> 1, res |-> res, er |-> EmptyDict, done |-> TRUE]
    ELSE IF i > Len(events[g].regs)
         THEN Advance(events, g + 1, 1,
                      IF DOMAIN er # {}
                      THEN Append(res, [event |-> events[g].event, values |-> er])
                      ELSE res,
                      EmptyDict)
         ELSE [g |-> g, i |-> i, res |-> res, er |-> er, done |-> FALSE]

CurReg == register_map.events[pg].regs[pi]

\* the value of the current register is known: store it and move on
AfterRead(value) ==
    LET n == Advance(register_map.events, pg, pi + 1, results,
                     Accumulate(event_results, CurReg.name, value))
    IN /\ pg' = n.g
       /\ pi' = n.i
       /\ results' = n.res
       /\ event_results' = n.er
       /\ reads' = Append(reads, [g |-> pg, i |-> pi, value |-> value])
       /\ pc' = IF n.done THEN "log" ELSE "poll"

\* _run_async: _ensure_connected returned True, _poll_registers starts
BeginPoll ==
    LET n == Advance(register_map.events, 1, 1, << >>, EmptyDict)
    IN /\ pg' = n.g
       /\ pi' = n.i
       /\ results' = n.res
       /\ event_results' = n.er
       /\ reads' = << >>
       /\ sink' = << >>
       /\ ev' = NoEvent
       /\ slept' = FALSE
       /\ pc' = IF ~register_map.loaded \/ n.done THEN "log" ELSE "poll"

\* _poll_registers is left: its locals are gone
EndTick ==
    /\ pg' = 1
    /\ pi' = 1
    /\ results' = << >>
    /\ event_results' = EmptyDict
    /\ reads' = << >>

\* the slip of counting a failed tick twice
PollError_twice(kind, msg) ==
    /\ error_count' = Min(error_count + 2, MaxCount)
    /\ ev' = [kind |-> kind, msg |-> msg]
    /\ slept' = slept
    /\ IF _is_connection_error(msg)
       THEN connected' = FALSE /\ pc' = "top"
       ELSE connected' = connected /\ pc' = "poll_sleep"

\* the slip of leaving the loop on a connection error ("break" for "continue")
PollError_giveup(kind, msg) ==
    /\ error_count' = IF error_count < MaxCount THEN error_count + 1 ELSE error_count
    /\ ev' = [kind |-> kind, msg |-> msg]
    /\ slept' = slept
    /\ IF msg \cap {"connection", "timeout", "refused", "reset", "broken pipe",
                    "no response", "disconnected", "not connected"} # {}
       THEN connected' = FALSE /\ pc' = "finally"
       ELSE connected' = connected /\ pc' = "poll_sleep"

\* the slip of a "continue" on every exception
PollError_nosleep(kind, msg) ==
    /\ error_count' = Min(error_count + 1, MaxCount)
    /\ ev' = [kind |-> kind, msg |-> msg]
    /\ slept' = slept
    /\ connected' = IF _is_connection_error(msg) THEN FALSE ELSE connected
    /\ pc' = "top"

\* _run_async: the except clause of the poll try block
PollError(kind, msg) ==
    /\ error_count' = Min(error_count + 1, MaxCount)
    /\ ev' = [kind |-> kind, msg |-> msg]
    /\ slept' = slept
    /\ IF _is_connection_error(msg)
       THEN connected' = FALSE /\ pc' = "top"
       ELSE connected' = connected /\ pc' = "poll_sleep"

(***************************************************************************)
(* start, stop, run and the poll loop _run_async.                          *)
(***************************************************************************)
\* ModbusClient.start, called by the entry points once, right before run;
\* the shutdown handler that calls stop() ends the process, so no start()
\* follows a stop()
Start ==
    /\ pc = "idle"
    /\ ~stopCalled
    /\ running' = TRUE
    /\ source' = TRUE
    /\ UNCHANGED <<auxVars, register_map, connected, client, poll_count, error_count,
                   store, stopCalled>>
    /\ UNCHANGED <<loopVars, actVars, netVars>>

\* the slip of a stop that drops the catalogue
Stop_clears ==
    /\ running' = FALSE
    /\ stopCalled' = TRUE
    /\ register_map' = NoMap
    /\ UNCHANGED <<auxVars, connected, client, poll_count, error_count, source, store>>
    /\ UNCHANGED <<loopVars, actVars, netVars>>

\* ModbusClient.stop
Stop ==
    /\ running' = FALSE
    /\ stopCalled' = TRUE
    /\ UNCHANGED <<auxVars, register_map, connected, client, poll_count, error_count,
                   source, store>>
    /\ UNCHANGED <<loopVars, actVars, netVars>>

\* ModbusClient.run
Run ==
    /\ pc = "idle"
    /\ pc' = "top"
    /\ UNCHANGED <<auxVars, register_map, store, stopCalled, clientVars, actVars, netVars,
                   pg, pi, results, event_results, sink, reads, ev, slept>>

\* the slip "while True:"
LoopTop_forever ==
    /\ pc = "top"
    /\ pc' = "ensure"
    /\ UNCHANGED <<auxVars, register_map, store, stopCalled, clientVars, actVars, netVars,
                   pg, pi, results, event_results, reads, slept>>
    /\ sink' = << >>
    /\ ev' = [kind |-> "none", msg |-> {}]

\* "while self._running:"
LoopTop ==
    /\ pc = "top"
    /\ pc' = IF running THEN "ensure" ELSE "finally"
    /\ UNCHANGED <<auxVars, register_map, store, stopCalled, clientVars, actVars, netVars,
                   pg, pi, results, event_results, reads, slept>>
    /\ sink' = << >>
    /\ ev' = NoEvent

\* the slip of trusting the flag: "if self._connected: return True"
LoopEnsure_flag ==
    /\ pc = "ensure"
    /\ IF connected
       THEN /\ BeginPoll
            /\ UNCHANGED <<connected, client, netVars>>
       ELSE /\ connected' = FALSE
            /\ connect("loop", Close(tstate))
            /\ pc' = "connecting"
            /\ UNCHANGED <<pg, pi, results, event_results, sink, reads, ev, slept>>
    /\ UNCHANGED <<auxVars, register_map, running, poll_count, error_count, source, store,
                   stopCalled, actVars>>

\* _ensure_connected up to its first await
LoopEnsure ==
    /\ pc = "ensure"
    /\ IF connected /\ client # 0 /\ ClientConnected(tstate)
       THEN /\ BeginPoll
            /\ UNCHANGED <<connected, client, netVars>>
       ELSE /\ connected' = FALSE
            /\ connect("loop", Close(tstate))
            /\ pc' = "connecting"
            /\ UNCHANGED <<pg, pi, results, event_results, sink, reads, ev, slept>>
    /\ UNCHANGED <<auxVars, register_map, running, poll_count, error_count, source, store,
                   stopCalled, actVars>>

\* the slip of polling whatever _ensure_connected returned
LoopConnectDone_polls ==
    /\ pc = "connecting"
    /\ \E out \in ConnectOutcomes :
         LET ts == IF out = "ok"
                   THEN SetState(tstate, inflight["loop"].on, "up")
                   ELSE tstate
             ok == out # "exc" /\ ClientConnected(ts)
         IN /\ inflight' = [inflight EXCEPT !["loop"] = NoCall]
            /\ connected' = ok
            /\ client' = client
            /\ tstate' = Released(ts, "loop")
            /\ BeginPoll
    /\ UNCHANGED <<auxVars, register_map, running, poll_count, error_count, source, store,
                   stopCalled, actVars>>

\* connect: the transport's connect() comes back
LoopConnectDone ==
    /\ pc = "connecting"
    /\ \E out \in ConnectOutcomes :
         LET ts == IF out = "ok"
                   THEN SetState(tstate, inflight["loop"].on, "up")
                   ELSE tstate
             ok == out # "exc" /\ ClientConnected(ts)
         IN /\ inflight' = [inflight EXCEPT !["loop"] = NoCall]
            /\ connected' = ok
            /\ client' = client
            /\ tstate' = Released(ts, "loop")
            /\ IF ok
               THEN BeginPoll
               ELSE /\ pc' = "retry_sleep"
                    /\ UNCHANGED <<pg, pi, results, event_results, sink, reads, ev, slept>>
    /\ UNCHANGED <<auxVars, register_map, running, poll_count, error_count, source, store,
                   stopCalled, actVars>>

\* asyncio.sleep(reconnect_interval) returns
RetrySleep ==
    /\ pc = "retry_sleep"
    /\ pc' = "top"
    /\ slept' = TRUE
    /\ UNCHANGED <<auxVars, register_map, store, stopCalled, clientVars, actVars, netVars,
                   pg, pi, results, event_results, sink, reads, ev>>

\* read_register_value up to the transport read
PollIssue ==
    /\ pc = "poll"
    /\ IF client = 0 \/ ~connected
       THEN /\ AfterRead(None)
            /\ UNCHANGED netVars
       ELSE /\ inflight' = [inflight EXCEPT !["loop"] = [op |-> "read", on |-> "cur"]]
            /\ pc' = "reading"
            /\ UNCHANGED <<tstate, pg, pi, results, event_results, reads>>
    /\ ev' = NoEvent
    /\ UNCHANGED <<auxVars, register_map, store, stopCalled, clientVars, actVars, sink, slept>>

\* the slip of raising on "result.isError()" where the raw read returns None
PollReadDone_raises ==
    /\ pc = "reading"
    /\ \E out \in IoOutcomes :
         /\ out.kind \in {"ok", "error"} =>
               StateOf(tstate, inflight["loop"].on) = "up"
         /\ out.kind \in {"ok", "error"} => out.msg = {}
         /\ inflight' = [inflight EXCEPT !["loop"] = NoCall]
         /\ client' = client
         /\ tstate' = Released(tstate, "loop")
         /\ IF out.kind \in {"exc", "error"}
            THEN /\ PollError(out.kind, out.msg)
                 /\ EndTick
            ELSE /\ AfterRead(IF out.kind = "ok" THEN ReadValue(CurReg, store) ELSE None)
                 /\ ev' = out
                 /\ slept' = slept
                 /\ UNCHANGED <<connected, error_count>>
    /\ UNCHANGED <<auxVars, register_map, running, poll_count, source, store,
                   stopCalled, actVars, sink>>

\* the slip of "except Exception: value = None" around the read of one
\* register
PollReadDone_skips ==
    /\ pc = "reading"
    /\ \E out \in IoOutcomes :
         /\ out.kind \in {"ok", "error"} =>
               StateOf(tstate, inflight["loop"].on) = "up"
         /\ out.kind \in {"ok", "error"} => out.msg = {}
         /\ inflight' = [inflight EXCEPT !["loop"] = NoCall]
         /\ client' = client
         /\ tstate' = Released(tstate, "loop")
         /\ AfterRead(IF out.kind = "ok" THEN ReadValue(CurReg, store) ELSE None)
         /\ ev' = out
         /\ slept' = slept
         /\ UNCHANGED <<connected, error_count>>
    /\ UNCHANGED <<auxVars, register_map, running, poll_count, source, store,
                   stopCalled, actVars, sink>>

\* the transport read comes back
PollReadDone ==
    /\ pc = "reading"
    /\ \E out \in IoOutcomes :
         /\ out.kind \in {"ok", "error"} =>
               StateOf(tstate, inflight["loop"].on) = "up"
         /\ out.kind \in {"ok", "error"} => out.msg = {}
         /\ inflight' = [inflight EXCEPT !["loop"] = NoCall]
         /\ client' = client
         /\ tstate' = Released(tstate, "loop")
         /\ IF out.kind = "exc"
            THEN /\ PollError("exc", out.msg)
                 /\ EndTick
            ELSE /\ AfterRead(IF out.kind = "ok" THEN ReadValue(CurReg, store) ELSE None)
                 /\ ev' = out
                 /\ slept' = slept
                 /\ UNCHANGED <<connected, error_count>>
    /\ UNCHANGED <<auxVars, register_map, running, poll_count, source, store,
                   stopCalled, actVars, sink>>

\* _log_values: the calls the sink has taken when event.log has returned k
\* times ("if not self._source: return", "if not event_values: continue")
NonEmpty(e) == DOMAIN e.values # {}

_log_values(values, k) ==
    IF source THEN SubSeq(SelectSeq(values, NonEmpty), 1, k) ELSE << >>

\* _log_values and the count: the sink takes the first k calls; k short of
\* all of them is event.log raising on call k + 1
LoopLog ==
    /\ pc = "log"
    /\ \E k \in 0..Len(SelectSeq(results, NonEmpty)), msg \in Messages :
         LET all == Len(SelectSeq(results, NonEmpty))
         IN /\ ~source => k = all
            /\ k = all => msg = {}
            /\ sink' = _log_values(results, k)
            /\ IF k = all
               THEN /\ poll_count' = Min(poll_count + 1, MaxCount)
                    /\ ev' = [kind |-> "logged", msg |-> {}]
                    /\ slept' = slept
                    /\ pc' = "poll_sleep"
                    /\ UNCHANGED <<connected, error_count>>
               ELSE /\ PollError("log_exc", msg)
                    /\ UNCHANGED poll_count
    /\ EndTick
    /\ UNCHANGED <<auxVars, register_map, running, client, source, store, stopCalled,
                   actVars, netVars>>

\* asyncio.sleep(self.poll_interval) returns
PollSleep ==
    /\ pc = "poll_sleep"
    /\ pc' = "top"
    /\ UNCHANGED <<auxVars, register_map, store, stopCalled, clientVars, actVars, netVars,
                   pg, pi, results, event_results, reads>>
    /\ sink' = << >>
    /\ ev' = NoEvent
    /\ slept' = TRUE

\* the slip of a loop that ends without "finally: await self.disconnect()"
LoopFinally_noclose ==
    /\ pc = "finally"
    /\ pc' = "done"
    /\ UNCHANGED <<auxVars, register_map, store, stopCalled, clientVars, actVars, netVars,
                   pg, pi, results, event_results, sink, reads, ev, slept>>

\* finally: disconnect
LoopFinally ==
    /\ pc = "finally"
    /\ pc' = "done"
    /\ connected' = IF client # 0 THEN FALSE ELSE connected
    /\ client' = client
    /\ inflight' = inflight
    /\ tstate' = Close(tstate)
    /\ UNCHANGED <<auxVars, register_map, running, poll_count, error_count, source, store,
                   stopCalled, actVars, pg, pi, results, event_results, sink,
                   reads, ev, slept>>

\* the link of a connected transport drops
LinkDrop ==
    /\ \E on \in {"cur", "det"} :
         /\ StateOf(tstate, on) = "up"
         /\ tstate' = SetState(tstate, on, "down")
    /\ UNCHANGED <<auxVars, register_map, store, stopCalled, clientVars, actVars, loopVars,
                   inflight>>

(***************************************************************************)
(* The on-demand operations, run by the SDK's action thread while the      *)
(* poll loop runs: the named and raw-address actions, and a direct call of *)
(* write_register_value.                                                   *)
(***************************************************************************)
\* the raw-address actions act on holding cell 0
RawReg == PostInit(RegisterArgs([address |-> 0, name |-> ""]))

\* registers handed to write_register_value besides those of the catalogue
ExtraRegisters ==
    {PostInit(RegisterArgs([address |-> 2, name |-> "limit", writable |-> FALSE])),
     PostInit(RegisterArgs([address |-> 0, name |-> "door_open",
                            type |-> "discrete_input", datatype |-> "bool"]))}

WriteTargets ==
    {Registers(register_map)[i] : i \in 1..Len(Registers(register_map))}
    \cup ExtraRegisters

ActOps ==
    {[kind |-> "read_named", name |-> n, reg |-> NoReg, value |-> 0] : n \in Names}
    \cup {[kind |-> "write_named", name |-> n, reg |-> NoReg, value |-> v] :
            n \in Names, v \in WriteValues}
    \cup {[kind |-> "write_value", name |-> "", reg |-> r, value |-> v] :
            r \in {w \in WriteTargets : w.writable}, v \in WriteValues}
    \cup {[kind |-> "write_value", name |-> "", reg |-> r, value |-> v] :
            r \in {w \in WriteTargets : ~w.writable}, v \in RejectedValues}
    \cup {[kind |-> "read_raw", name |-> "", reg |-> RawReg, value |-> 0]}
    \cup {[kind |-> "write_raw", name |-> "", reg |-> RawReg, value |-> v] :
            v \in WriteValues}

IsRead(op) == op.kind \in {"read_named", "read_raw"}

\* the slip of a write_register_value without its "if not register.writable"
write_register_value_unchecked(register, value) ==
    LET raw == encode_value(value, register.datatype, register.scale,
                            register.byte_order)
    IN IF register.type = "coil"
       THEN [does |-> "write_coil", table |-> "c", address |-> register.address,
             words |-> <<IF value # 0 THEN 1 ELSE 0>>]
       ELSE IF ~raw.ok
       THEN [does |-> "raise", table |-> "h", address |-> 0, words |-> << >>]
       ELSE [does |-> IF Len(raw.regs) = 1 THEN "write_register" ELSE "write_registers",
             table |-> "h", address |-> register.address, words |-> raw.regs]

\* the slip of writing the first word only, with write_register
write_register_value_first(register, value) ==
    LET raw == encode_value(value, register.datatype, register.scale,
                            register.byte_order)
    IN IF ~register.writable
       THEN [does |-> "false", table |-> "h", address |-> 0, words |-> << >>]
       ELSE IF register.type = "coil"
       THEN [does |-> "write_coil", table |-> "c", address |-> register.address,
             words |-> <<IF value # 0 THEN 1 ELSE 0>>]
       ELSE IF ~raw.ok
       THEN [does |-> "raise", table |-> "h", address |-> 0, words |-> << >>]
       ELSE [does |-> "write_register", table |-> "h", address |-> register.address,
             words |-> <<raw.regs[1]>>]

\* write_register_value up to its transport call: "false" (rejected),
\* "raise" (encode_value fails) or the one call it makes
write_register_value(register, value) ==
    LET raw == encode_value(value, register.datatype, register.scale,
                            register.byte_order)
    IN IF ~register.writable
       THEN [does |-> "false", table |-> "h", address |-> 0, words |-> << >>]
       ELSE IF register.type = "coil"
       THEN [does |-> "write_coil", table |-> "c", address |-> register.address,
             words |-> <<IF value # 0 THEN 1 ELSE 0>>]
       ELSE IF ~raw.ok
       THEN [does |-> "raise", table |-> "h", address |-> 0, words |-> << >>]
       ELSE [does |-> IF Len(raw.regs) = 1 THEN "write_register" ELSE "write_registers",
             table |-> "h", address |-> register.address, words |-> raw.regs]

\* the write an operation makes: write_register_action calls write_register
WireWrite(op) ==
    IF op.kind = "write_raw"
    THEN [does |-> "write_register", table |-> "h", address |-> op.reg.address,
          words |-> <<op.value>>]
    ELSE write_register_value(op.reg, op.value)

\* the device applies a write request
ApplyWrite(st, w) ==
    [st EXCEPT ![w.table] =
        [a \in Addrs |-> IF a >= w.address /\ a < w.address + Len(w.words)
                         THEN w.words[a - w.address + 1]
                         ELSE st[w.table][a]]]

\* the slip of raw calls without their "not self._client or not
\* self._connected" guard
Issue_unguarded(op, cl, conn) ==
    IF ~IsRead(op) /\ WireWrite(op).does = "false" THEN "failure"
    ELSE IF ~IsRead(op) /\ WireWrite(op).does = "raise" THEN "raised"
    ELSE "io"

\* the read or write an operation ends in, up to its transport call: the
\* checks of write_register_value, then the "not self._client or not
\* self._connected" guard of the raw call
Issue(op, cl, conn) ==
    IF ~IsRead(op) /\ WireWrite(op).does = "false" THEN "failure"
    ELSE IF ~IsRead(op) /\ WireWrite(op).does = "raise" THEN "raised"
    ELSE IF cl = 0 \/ ~conn THEN "failure"
    ELSE "io"

\* the operation returns to its caller
Return(op, outcome, error, value) ==
    /\ aresult' = Result(op, outcome, error, value)
    /\ aop' = NoOp
    /\ apc' = "idle"

\* the operation op, past its lookups, reaches its raw call with the client
\* connection state (cl, conn)
Proceed(op, cl, conn) ==
    IF Issue(op, cl, conn) = "io"
    THEN /\ inflight' = [inflight EXCEPT !["act"] =
                           [op |-> IF IsRead(op) THEN "read" ELSE "write",
                            on |-> "cur"]]
         /\ aop' = op
         /\ apc' = "io"
         /\ aresult' = NoResult
    ELSE /\ inflight' = [inflight EXCEPT !["act"] = NoCall]
         /\ Return(op, Issue(op, cl, conn), FALSE, None)

\* "if not self._connected: await self.connect()", then the raw call
ConnectIfNeeded(op) ==
    IF connected
    THEN /\ Proceed(op, client, connected)
         /\ UNCHANGED <<connected, client, tstate>>
    ELSE /\ connect("act", tstate)
         /\ aop' = op
         /\ apc' = "connecting"
         /\ aresult' = NoResult
         /\ UNCHANGED connected

\* read_named_register and write_named_register, up to the first await
NamedAction(op) ==
    LET idx == get_by_name(register_map, op.name)
    IN IF ~register_map.loaded
       THEN /\ Return(op, "no_map", TRUE, None)
            /\ UNCHANGED <<connected, client, netVars>>
       ELSE IF idx = 0
       THEN /\ Return(op, "not_found", TRUE, None)
            /\ UNCHANGED <<connected, client, netVars>>
       ELSE IF op.kind = "write_named" /\ ~Registers(register_map)[idx].writable
       THEN /\ Return(op, "not_writable", TRUE, None)
            /\ UNCHANGED <<connected, client, netVars>>
       ELSE ConnectIfNeeded([op EXCEPT !.reg = Registers(register_map)[idx]])

\* the SDK's action thread runs an action (or a caller runs
\* write_register_value) up to its first await
ActCall ==
    /\ apc = "idle"
    /\ \E op \in ActOps :
         CASE op.kind \in {"read_named", "write_named"} -> NamedAction(op)
           [] op.kind = "write_value" ->
                /\ Proceed(op, client, connected)
                /\ UNCHANGED <<connected, client, tstate>>
           [] OTHER -> ConnectIfNeeded(op)
    /\ UNCHANGED <<auxVars, register_map, running, poll_count, error_count, source, store,
                   stopCalled, loopVars>>

\* connect, called from an action: the transport's connect() comes back and
\* the action goes on to its raw call
ActConnectDone ==
    /\ apc = "connecting"
    /\ \E out \in ConnectOutcomes :
         LET ts == IF out = "ok"
                   THEN SetState(tstate, inflight["act"].on, "up")
                   ELSE tstate
             conn == out # "exc" /\ ClientConnected(ts)
         IN /\ connected' = conn
            /\ client' = client
            /\ Proceed(aop, client, conn)
            /\ tstate' = Released(ts, "act")
    /\ UNCHANGED <<auxVars, register_map, running, poll_count, error_count, source, store,
                   stopCalled, loopVars>>

\* the action's transport call comes back
ActIoDone ==
    /\ apc = "io"
    /\ \E out \in IoOutcomes :
         /\ out.kind \in {"ok", "error"} =>
               StateOf(tstate, inflight["act"].on) = "up"
         /\ out.kind \in {"ok", "error"} => out.msg = {}
         /\ out.kind \in {"modbus_exc", "exc"} => out.msg = MsgConnectionRefused
         /\ inflight' = [inflight EXCEPT !["act"] = NoCall]
         /\ client' = client
         /\ tstate' = Released(tstate, "act")
         /\ store' = IF out.kind = "ok" /\ ~IsRead(aop)
                     THEN ApplyWrite(store, WireWrite(aop))
                     ELSE store
         /\ CASE out.kind = "ok" ->
                   Return(aop, "success", FALSE,
                          IF IsRead(aop) THEN ReadValue(aop.reg, store) ELSE None)
              [] out.kind = "exc" -> Return(aop, "raised", FALSE, None)
              [] OTHER -> Return(aop, "failure", FALSE, None)
    /\ UNCHANGED <<auxVars, register_map, stopCalled, running, connected, poll_count,
                   error_count, source, loopVars>>

Next ==
    \/ Start
    \/ Stop
    \/ Run
    \/ LoopTop
    \/ LoopEnsure
    \/ LoopConnectDone
    \/ RetrySleep
    \/ PollIssue
    \/ PollReadDone
    \/ LoopLog
    \/ PollSleep
    \/ LoopFinally
    \/ LinkDrop
    \/ ActCall
    \/ ActConnectDone
    \/ ActIoDone

Spec == Init /\ [][Next]_vars

\* the on-demand operations alone, on a catalogue in which both groups have
\* a register named "temp" and one named "humidity"
DupDoc ==
    << [event |-> "sensors",
        regs  |-> << [address |-> 0, name |-> "temp"],
                     [address |-> 1, name |-> "humidity", type |-> "input"] >>],
       [event |-> "controls",
        regs  |-> << [address |-> 0, name |-> "humidity"],
                     [address |-> 2, name |-> "temp"] >>] >>

InitNamed ==
    /\ register_map = from_dict(DupDoc)
    /\ InitClient
    /\ boot = NoBoot
    /\ probe = NoProbe
    /\ NoSim

NextNamed ==
    \/ ActCall
    \/ ActConnectDone
    \/ ActIoDone
    \/ LinkDrop

SpecNamed == InitNamed /\ [][NextNamed]_vars

\* every step of the poll loop: each returns, given that the transport
\* calls and the sleeps return
LoopStep ==
    \/ LoopTop
    \/ LoopEnsure
    \/ LoopConnectDone
    \/ RetrySleep
    \/ PollIssue
    \/ PollReadDone
    \/ LoopLog
    \/ PollSleep
    \/ LoopFinally

NextLoop ==
    \/ Start
    \/ Stop
    \/ Run
    \/ LoopStep
    \/ LinkDrop

SpecLoop == InitLoop /\ [][NextLoop]_vars

FairLoop == SpecLoop /\ WF_vars(LoopStep)

(***************************************************************************)
(* Status and listings: the three actions that await nothing.  The fields  *)
(* of the status that come from the configuration (transport, connection,  *)
(* unit_id, poll_interval) are not part of the model's state.              *)
(***************************************************************************)
\* the slip of counting the writable registers only
get_status_writable(rm, conn, polls, errors) ==
    [connected   |-> conn,
     poll_count  |-> polls,
     error_count |-> errors,
     registers   |-> IF rm.loaded
                     THEN Len(SelectSeq(Registers(rm), LAMBDA r : r.writable))
                     ELSE 0]

\* ModbusClient.get_status
get_status(rm, conn, polls, errors) ==
    [connected   |-> conn,
     poll_count  |-> polls,
     error_count |-> errors,
     registers   |-> IF rm.loaded THEN Len(Registers(rm)) ELSE 0]

\* ModbusClient.list_registers
list_registers(rm) ==
    IF ~rm.loaded THEN [registers |-> << >>, count |-> 0]
    ELSE LET regs == [i \in 1..Len(Registers(rm)) |->
                        LET r == Registers(rm)[i]
                        IN [name |-> r.name, address |-> r.address, type |-> r.type,
                            datatype |-> r.datatype, unit |-> r.unit,
                            writable |-> r.writable, byte_order |-> r.byte_order]]
         IN [registers |-> regs, count |-> Len(regs)]

\* ModbusClient.list_writable_registers
list_writable_registers(rm) ==
    IF ~rm.loaded THEN [registers |-> << >>, count |-> 0]
    ELSE LET ws == writable_registers(rm)
             regs == [i \in 1..Len(ws) |->
                        [name |-> ws[i].name, address |-> ws[i].address,
                         type |-> ws[i].type, datatype |-> ws[i].datatype,
                         unit |-> ws[i].unit, byte_order |-> ws[i].byte_order]]
         IN [registers |-> regs, count |-> Len(regs)]

InfoKinds == {"get_status", "list_registers", "list_writable_registers"}

InfoOp(kind) == [kind |-> kind, name |-> "", reg |-> NoReg, value |-> 0]

\* the SDK's action thread runs one of the three; each returns at once
ActInfo ==
    /\ apc = "idle"
    /\ \E kind \in InfoKinds :
         Return(InfoOp(kind), "success", FALSE,
                CASE kind = "get_status" ->
                       get_status(register_map, connected, poll_count, error_count)
                  [] kind = "list_registers" -> list_registers(register_map)
                  [] OTHER -> list_writable_registers(register_map))
    /\ UNCHANGED <<auxVars, register_map, store, stopCalled, clientVars, loopVars,
                   netVars>>

\* the loop with the three actions called from the action thread at any point
NextStatus ==
    \/ NextLoop
    \/ ActInfo

SpecStatus == InitLoop /\ [][NextStatus]_vars

(***************************************************************************)
(* The two entry points that load the register-map document and build the  *)
(* client: run_app_mode (cli/app.py) and the trace command (main.py).      *)
(* Both end with client.start(); client.run().                             *)
(***************************************************************************)
\* Register(...) in from_dict raises KeyError for a missing "address" or
\* "name" and ValueError from __post_init__ for a value outside an enum
Loadable(doc) ==
    \A g \in 1..Len(doc) : \A i \in 1..Len(doc[g].regs) :
        /\ "address" \in DOMAIN doc[g].regs[i]
        /\ "name" \in DOMAIN doc[g].regs[i]
        /\ RegisterValid(RegisterArgs(doc[g].regs[i]))

\* RegisterMap.from_file on an existing file with this content
from_file(doc) ==
    IF Loadable(doc)
    THEN [ok |-> TRUE, map |-> from_dict(doc)]
    ELSE [ok |-> FALSE, map |-> NoMap]

BadEnumDoc ==
    << [event |-> "sensors",
        regs  |-> << [address |-> 0, name |-> "temp", type |-> "holding_register"],
                     [address |-> 1, name |-> "humidity", type |-> "input"] >>] >>

MissingFieldDoc ==
    << [event |-> "sensors",
        regs  |-> << [address |-> 0, name |-> "temp"],
                     [address |-> 1, type |-> "input"] >>] >>

BootDocs == {DemoDoc, BadEnumDoc, MissingFieldDoc}

InitBoot ==
    /\ register_map = NoMap
    /\ InitClient
    /\ boot \in [mode : {"app", "trace"}, doc : BootDocs, state : {"entry"}]
    /\ probe = NoProbe
    /\ NoSim

\* run_app_mode: a load failure is logged and register_map stays None
run_app_mode ==
    /\ boot.mode = "app"
    /\ boot.state = "entry"
    /\ LET loaded == from_file(boot.doc)
       IN register_map' = IF loaded.ok THEN loaded.map ELSE NoMap
    /\ boot' = [boot EXCEPT !.state = "run"]
    /\ UNCHANGED <<clientVars, loopVars, actVars, netVars, store, stopCalled,
                   probe, simVars>>

\* trace: a load failure is raised as click.ClickException
trace ==
    /\ boot.mode = "trace"
    /\ boot.state = "entry"
    /\ LET loaded == from_file(boot.doc)
       IN /\ register_map' = loaded.map
          /\ boot' = [boot EXCEPT !.state = IF loaded.ok THEN "run" ELSE "aborted"]
    /\ UNCHANGED <<clientVars, loopVars, actVars, netVars, store, stopCalled,
                   probe, simVars>>

\* the client exists once the entry point has built it
BootRun == boot.state = "run" /\ NextLoop

NextBoot ==
    \/ run_app_mode
    \/ trace
    \/ BootRun

SpecBoot == InitBoot /\ [][NextBoot]_vars

(***************************************************************************)
(* demo/simulator.py: the device store of the demo server and the          *)
(* generator thread that rewrites it (SimulatorUpdater), with a client     *)
(* that reads and writes registers of the demo catalogue through the       *)
(* server.  A table is a function from block addresses ("cells") to words  *)
(* or bits (1/0); the server serves client address A from cell A + 1, the  *)
(* cell the generator writes for the register at ADDR = A.                 *)
(***************************************************************************)
ADDR_VOLTAGE_L1 == 0
ADDR_VOLTAGE_L2 == 2
ADDR_VOLTAGE_L3 == 4
ADDR_CURRENT_L1 == 6
ADDR_CURRENT_L2 == 8
ADDR_CURRENT_L3 == 10
ADDR_POWER_TOTAL == 12
ADDR_POWER_FACTOR == 14
ADDR_FREQUENCY == 16
ADDR_ENERGY_TOTAL == 18
ADDR_TEMPERATURE == 20
ADDR_COIL_RELAY1 == 0
ADDR_COIL_RELAY2 == 1
ADDR_COIL_ALARM == 2
ADDR_IR_FIRMWARE == 0
ADDR_IR_SERIAL == 1
ADDR_IR_UPTIME == 3
ADDR_DI_DOOR == 0
ADDR_DI_FAULT == 1
ADDR_DI_GRID == 2
ADDR_VOLTAGE_HIGH == 100
ADDR_VOLTAGE_LOW == 101
ADDR_POWER_LIMIT == 102
ADDR_ENERGY_RESET == 104
ADDR_CAL_FACTOR == 110
ADDR_OFFSET_VAL == 112

\* the sizes of the four blocks of create_demo_context
HR_SIZE == 200
COIL_SIZE == 16
DI_SIZE == 16
IR_SIZE == 100

FIRMWARE == 258
SERIAL == 12345678
\* the bit patterns of the float32 values 1.0 and 3.14159
F32_ONE == 1065353216
F32_PI == 1078530000

uint32_to_registers(value) == <<value \div 65536, value % 65536>>
int32_to_registers(value) == <<(value \div 65536) % 65536, value % 65536>>
float32_to_registers_swapped(bits) == <<bits % 65536, bits \div 65536>>

\* block.setValues(address, values)
setValues(block, address, values) ==
    [a \in DOMAIN block |->
        IF a >= address /\ a < address + Len(values)
        THEN values[a - address + 1]
        ELSE block[a]]

\* create_demo_context
create_demo_context ==
    LET hr0 == [a \in 0..(HR_SIZE - 1) |-> 0]
        hr1 == setValues(hr0, ADDR_VOLTAGE_HIGH + 1, <<250>>)
        hr2 == setValues(hr1, ADDR_VOLTAGE_LOW + 1, <<210>>)
        hr3 == setValues(hr2, ADDR_POWER_LIMIT + 1, int32_to_registers(50000))
        hr4 == setValues(hr3, ADDR_ENERGY_RESET + 1, uint32_to_registers(0))
        hr5 == setValues(hr4, ADDR_CAL_FACTOR + 1, float32_to_registers_swapped(F32_ONE))
        hr6 == setValues(hr5, ADDR_OFFSET_VAL + 1, float32_to_registers_swapped(0))
    IN [h |-> hr6,
        c |-> [a \in 0..(COIL_SIZE - 1) |-> 0],
        d |-> [a \in 0..(DI_SIZE - 1) |-> IF a = ADDR_DI_GRID THEN 1 ELSE 0],
        i |-> [a \in 0..(IR_SIZE - 1) |->
                 IF a = ADDR_IR_FIRMWARE THEN FIRMWARE
                 ELSE IF a = ADDR_IR_SERIAL THEN uint32_to_registers(SERIAL)[1]
                 ELSE IF a = ADDR_IR_SERIAL + 1 THEN uint32_to_registers(SERIAL)[2]
                 ELSE 0]]

\* the store as a client sees it: client address A is cell A + 1
ServerView(st) ==
    [t \in DOMAIN st |->
        [a \in 0..(Cardinality(DOMAIN st[t]) - 2) |-> st[t][a + 1]]]

\* the server applies a write request of a client
ServerWrite(st, w) ==
    [st EXCEPT ![w.table] = setValues(st[w.table], w.address + 1, w.words)]

\* the registers of the demo catalogue that the client works with
SimDoc ==
    << [event |-> "controls",
        regs  |-> << [address |-> ADDR_COIL_RELAY1, name |-> "relay1",
                      type |-> "coil", datatype |-> "bool"],
                     [address |-> ADDR_VOLTAGE_HIGH, name |-> "voltage_high_limit",
                      datatype |-> "uint16"],
                     [address |-> ADDR_POWER_LIMIT, name |-> "power_limit",
                      datatype |-> "int32"],
                     [address |-> ADDR_OFFSET_VAL, name |-> "offset_value",
                      datatype |-> "float32", byte_order |-> "big_swap"] >>],
       [event |-> "info",
        regs  |-> << [address |-> ADDR_IR_FIRMWARE, name |-> "firmware_version",
                      type |-> "input", writable |-> TRUE] >>] >>

SimRegs == LET regs == Registers(from_dict(SimDoc))
           IN {regs[i] : i \in 1..Len(regs)}

SimNames == {r.name : r \in SimRegs}

\* the values the client writes to a register
SimValues(reg) ==
    CASE reg.name = "relay1" -> {1, 0}
      [] reg.name = "voltage_high_limit" -> {245}
      [] reg.name = "power_limit" -> {-10000}
      [] reg.name = "offset_value" -> {F32_PI}
      [] OTHER -> {1}

\* a written value as a later read reports it
AsRead(reg, v) ==
    CASE reg.datatype = "bool" -> BoolVal(v # 0)
      [] reg.datatype = "float32" -> F32Val(v)
      [] OTHER -> IntVal(v)

\* the words a tick writes for a measurement, the uptime in hours
Samples == {0, 1}
Hours == {0, 1}

\* PowerMeterSimulator.relay1 and relay2: set in __init__, assigned nowhere else
SimRelay1 == 0
SimRelay2 == 0

NoRead == [name |-> "", value |-> None]

InitSim ==
    /\ register_map = NoMap
    /\ InitClient
    /\ boot = NoBoot
    /\ probe = NoProbe
    /\ simstore = create_demo_context
    /\ simgen = "h"
    /\ simcli = [last |-> [n \in SimNames |-> None], read |-> NoRead,
                 ticked |-> FALSE, rejected |-> ""]

SimFrame ==
    UNCHANGED <<register_map, clientVars, loopVars, actVars, netVars, store,
                stopCalled, boot, probe>>

\* the slip of rewriting the whole holding block from the snapshot
TickHoldingCells_block == 1..(HR_SIZE - 1)

\* the float32 and uint32 measurements and the temperature
TickHoldingCells ==
    UNION {{A + 1, A + 2} :
             A \in {ADDR_VOLTAGE_L1, ADDR_VOLTAGE_L2, ADDR_VOLTAGE_L3,
                    ADDR_CURRENT_L1, ADDR_CURRENT_L2, ADDR_CURRENT_L3,
                    ADDR_POWER_TOTAL, ADDR_POWER_FACTOR, ADDR_FREQUENCY,
                    ADDR_ENERGY_TOTAL}}
    \cup {ADDR_TEMPERATURE + 1}

\* _update_datastore, holding registers
GenHolding ==
    /\ simgen = "h"
    /\ \E w \in Samples :
         simstore' = [simstore EXCEPT !.h =
                        [a \in DOMAIN simstore.h |->
                           IF a \in TickHoldingCells THEN w ELSE simstore.h[a]]]
    /\ simgen' = "c"
    /\ simcli' = [simcli EXCEPT !.ticked = TRUE]
    /\ SimFrame

\* _update_datastore, coils
GenCoils ==
    /\ simgen = "c"
    /\ \E alarm \in {0, 1} :
         simstore' = [simstore EXCEPT !.c =
                        setValues(setValues(setValues(simstore.c,
                            ADDR_COIL_RELAY1 + 1, <<SimRelay1>>),
                            ADDR_COIL_RELAY2 + 1, <<SimRelay2>>),
                            ADDR_COIL_ALARM + 1, <<alarm>>)]
    /\ simgen' = "i"
    /\ UNCHANGED simcli
    /\ SimFrame

\* the slip of writing the uptime at the address of the serial number
GenInput_serial ==
    /\ simgen = "i"
    /\ \E uptime_hours \in Hours :
         simstore' = [simstore EXCEPT !.i =
                        setValues(simstore.i, ADDR_IR_SERIAL + 1,
                                  uint32_to_registers(uptime_hours))]
    /\ simgen' = "d"
    /\ UNCHANGED simcli
    /\ SimFrame

\* _update_datastore, input registers
GenInput ==
    /\ simgen = "i"
    /\ \E uptime_hours \in Hours :
         simstore' = [simstore EXCEPT !.i =
                        setValues(simstore.i, ADDR_IR_UPTIME + 1,
                                  uint32_to_registers(uptime_hours))]
    /\ simgen' = "d"
    /\ UNCHANGED simcli
    /\ SimFrame

\* _update_datastore, discrete inputs: the door toggles one time in a hundred
GenDiscrete ==
    /\ simgen = "d"
    /\ \E toggle \in BOOLEAN :
         simstore' = IF toggle
                     THEN [simstore EXCEPT !.d =
                             setValues(simstore.d, ADDR_DI_DOOR + 1,
                                       <<1 - simstore.d[ADDR_DI_DOOR + 1]>>)]
                     ELSE simstore
    /\ simgen' = "h"
    /\ UNCHANGED simcli
    /\ SimFrame

\* write_register_value(register, value) of a client connected to the server
SimWriteValue ==
    /\ \E reg \in SimRegs : \E v \in SimValues(reg) :
         LET w == write_register_value(reg, v)
         IN IF w.does \in {"false", "raise"}
            THEN /\ simcli' = [simcli EXCEPT !.rejected = reg.name]
                 /\ UNCHANGED simstore
            ELSE /\ simstore' = ServerWrite(simstore, w)
                 /\ simcli' = [simcli EXCEPT !.last[reg.name] = AsRead(reg, v),
                                             !.read = NoRead,
                                             !.ticked = FALSE]
    /\ UNCHANGED simgen
    /\ SimFrame

\* read_register_value(register) of that client
SimReadValue ==
    /\ \E reg \in {r \in SimRegs : r.writable} :
         simcli' = [simcli EXCEPT !.read =
                      [name |-> reg.name,
                       value |-> ReadValue(reg, ServerView(simstore))]]
    /\ UNCHANGED <<simstore, simgen>>
    /\ SimFrame

NextSim ==
    \/ GenHolding
    \/ GenCoils
    \/ GenInput
    \/ GenDiscrete
    \/ SimWriteValue
    \/ SimReadValue

SpecSim == InitSim /\ [][NextSim]_vars

(***************************************************************************)
(* The generator call by call: every setValues of _update_datastore is one *)
(* step, and a client reads the two-word quantities the generator writes   *)
(* between any two of them.  simgen holds the values of the tick and the   *)
(* position of the next call.                                              *)
(***************************************************************************)
\* struct.pack(">f", value) unpacked as ">HH": the bit pattern, high word first
float32_to_registers(bits) == <<bits \div 65536, bits % 65536>>

\* the values of a tick (PowerMeterSimulator.update, and the uptime computed
\* in _update_datastore): two samples that differ in every word
TickSamples ==
    { [f |-> F32_ONE, energy |-> 1, temperature |-> 250, alarm |-> 0, uptime |-> 1],
      [f |-> F32_PI, energy |-> 65536, temperature |-> 251, alarm |-> 1,
       uptime |-> 65536] }

\* the blocks of create_demo_context hold zeros at the generator's cells
NoValues == [f |-> 0, energy |-> 0, temperature |-> 0, alarm |-> 0, uptime |-> 0]

\* the slip of one setValues per word
StoreWrite_by_word(table, address, values) ==
    [j \in 1..Len(values) |->
       [table |-> table, address |-> address + j - 1, words |-> <<values[j]>>]]

\* one store write call: block.setValues(address, values)
StoreWrite(table, address, values) ==
    << [table |-> table, address |-> address, words |-> values] >>

\* _update_datastore: its store write calls, in order (the door apart)
_update_datastore(values) ==
    StoreWrite("h", ADDR_VOLTAGE_L1 + 1, float32_to_registers(values.f))
    \o StoreWrite("h", ADDR_VOLTAGE_L2 + 1, float32_to_registers(values.f))
    \o StoreWrite("h", ADDR_VOLTAGE_L3 + 1, float32_to_registers(values.f))
    \o StoreWrite("h", ADDR_CURRENT_L1 + 1, float32_to_registers(values.f))
    \o StoreWrite("h", ADDR_CURRENT_L2 + 1, float32_to_registers(values.f))
    \o StoreWrite("h", ADDR_CURRENT_L3 + 1, float32_to_registers(values.f))
    \o StoreWrite("h", ADDR_POWER_TOTAL + 1, float32_to_registers(values.f))
    \o StoreWrite("h", ADDR_POWER_FACTOR + 1, float32_to_registers(values.f))
    \o StoreWrite("h", ADDR_FREQUENCY + 1, float32_to_registers(values.f))
    \o StoreWrite("h", ADDR_ENERGY_TOTAL + 1, uint32_to_registers(values.energy))
    \o StoreWrite("h", ADDR_TEMPERATURE + 1, <<values.temperature % 65536>>)
    \o StoreWrite("c", ADDR_COIL_RELAY1 + 1, <<SimRelay1>>)
    \o StoreWrite("c", ADDR_COIL_RELAY2 + 1, <<SimRelay2>>)
    \o StoreWrite("c", ADDR_COIL_ALARM + 1, <<values.alarm>>)
    \o StoreWrite("i", ADDR_IR_UPTIME + 1, uint32_to_registers(values.uptime))

\* the two-word registers of the demo catalogue that the generator writes
TickDoc ==
    << [event |-> "measurements",
        regs  |-> << [address |-> ADDR_VOLTAGE_L1, name |-> "voltage_l1",
                      datatype |-> "float32"],
                     [address |-> ADDR_FREQUENCY, name |-> "frequency",
                      datatype |-> "float32"],
                     [address |-> ADDR_ENERGY_TOTAL, name |-> "energy_total",
                      datatype |-> "uint32"],
                     [address |-> ADDR_IR_UPTIME, name |-> "uptime",
                      type |-> "input", datatype |-> "uint32"] >>] >>

TickRegs == LET regs == Registers(from_dict(TickDoc))
            IN {regs[i] : i \in 1..Len(regs)}

\* the words the generator writes for a register, given the values of a tick
WordsOf(name, values) ==
    CASE name = "energy_total" -> uint32_to_registers(values.energy)
      [] name = "uptime" -> uint32_to_registers(values.uptime)
      [] OTHER -> float32_to_registers(values.f)

InitTick ==
    /\ register_map = NoMap
    /\ InitClient
    /\ boot = NoBoot
    /\ probe = NoProbe
    /\ simstore = create_demo_context
    /\ simgen \in {[values |-> v, at |-> 1] : v \in TickSamples}
    /\ simcli = [name |-> "", words |-> << >>, value |-> None]

\* the next store write call of the tick
TickCall ==
    /\ simgen.at <= Len(_update_datastore(simgen.values))
    /\ LET w == _update_datastore(simgen.values)[simgen.at]
       IN simstore' = [simstore EXCEPT ![w.table] =
                         setValues(simstore[w.table], w.address, w.words)]
    /\ simgen' = [simgen EXCEPT !.at = simgen.at + 1]
    /\ UNCHANGED simcli
    /\ SimFrame

\* the door (one time in a hundred), time.sleep(self.interval), and the
\* values of the next tick
TickEnd ==
    /\ simgen.at > Len(_update_datastore(simgen.values))
    /\ \E toggle \in BOOLEAN :
         simstore' = IF toggle
                     THEN [simstore EXCEPT !.d =
                             setValues(simstore.d, ADDR_DI_DOOR + 1,
                                       <<1 - simstore.d[ADDR_DI_DOOR + 1]>>)]
                     ELSE simstore
    /\ \E v \in TickSamples : simgen' = [values |-> v, at |-> 1]
    /\ UNCHANGED simcli
    /\ SimFrame

\* read_register_value(register) of a client, served as one request
TickRead ==
    /\ \E reg \in TickRegs :
         LET r == read_register_value(reg)
         IN simcli' = [name |-> reg.name,
                       words |-> RawRead(ServerView(simstore), r.table, r.address,
                                         r.count),
                       value |-> ReadValue(reg, ServerView(simstore))]
    /\ UNCHANGED <<simstore, simgen>>
    /\ SimFrame

NextTick ==
    \/ TickCall
    \/ TickEnd
    \/ TickRead

SpecTick == InitTick /\ [][NextTick]_vars

(***************************************************************************)
(* The pure functions on their own: a round trip through encode_value and  *)
(* decode_value, _reorder_registers, and the construction of a Register.   *)
(* The initial state holds the arguments, the one step applies the         *)
(* function.                                                               *)
(***************************************************************************)
CodecTypes == {"bool", "uint16", "int16", "uint32", "int32"}

Scales == {-1, 0, 1, 2, 10}

CodecValues(dt) ==
    CASE dt = "bool"   -> {0, 1}
      [] dt = "uint16" -> {0, 1, 1234, 40000, 65535}
      [] dt = "int16"  -> {-32768, -100, 0, 1, 32767}
      [] dt = "uint32" -> {0, 1, 65536, 123456, 2147483647}
      [] dt = "int32"  -> {-2147483647, -10000, 0, 65537, 2147483647}

RoundTripArgs ==
    {[datatype |-> dt, byte_order |-> o, scale |-> sc, value |-> v] :
        dt \in CodecTypes, o \in BYTE_ORDERS, sc \in Scales,
        v \in UNION {CodecValues(d) : d \in CodecTypes}}

Words == {1, 2, 3}

ReorderArgs ==
    {[registers |-> r, byte_order |-> o] :
        r \in [1..1 -> Words] \cup [1..2 -> Words] \cup [1..4 -> Words],
        o \in BYTE_ORDERS}

\* an entry of a document: type and writable given or left out
RegisterDocs ==
    LET base == {[address |-> 0, name |-> "t"]}
        typed == {[address |-> 0, name |-> "t", type |-> t] : t \in REGISTER_TYPES}
        both == {[address |-> 0, name |-> "t", type |-> t, writable |-> w] :
                   t \in REGISTER_TYPES, w \in BOOLEAN}
        flagged == {[address |-> 0, name |-> "t", writable |-> w] : w \in BOOLEAN}
    IN [kind : {"base"}, doc : base] \cup [kind : {"typed"}, doc : typed]
       \cup [kind : {"both"}, doc : both] \cup [kind : {"flagged"}, doc : flagged]

\* entries of a document, sound and unsound
DocEntries ==
    {[address |-> 0, name |-> "temp"],
     [address |-> 1, name |-> "temp", type |-> "input", unit |-> "C"],
     [address |-> 0, name |-> "relay", type |-> "coil", datatype |-> "bool"],
     [address |-> 2, name |-> "limit", writable |-> FALSE],
     [address |-> 0, name |-> "door", type |-> "discrete_input",
      datatype |-> "bool", writable |-> TRUE],
     [address |-> 0, name |-> "bad", type |-> "holding_register"],
     [address |-> 0, name |-> "bad", datatype |-> "uint8"],
     [address |-> 0, name |-> "bad", byte_order |-> "middle"],
     [name |-> "bad"],
     [address |-> 1]}

\* documents of two groups, the first of two registers
CatalogueDocs ==
    {<< [event |-> "sensors", regs |-> <<a, b>>],
        [event |-> "controls", regs |-> <<c>>] >> : a, b, c \in DocEntries}

LookupNames == {"temp", "relay", "limit", "door", "nonexistent"}

\* registers of every type and datatype, as from_dict constructs them, and a
\* device whose cells differ from one another
ProbeRegisters ==
    {PostInit(RegisterArgs([address |-> a, name |-> "r", type |-> t, datatype |-> dt,
                            scale |-> sc, byte_order |-> o])) :
        a \in {0, 1}, t \in REGISTER_TYPES, dt \in DATATYPE_NAMES,
        sc \in {1, 10}, o \in {"big", "little"}}

ProbeStore ==
    [h |-> [a \in 0..4 |-> a + 1],
     i |-> [a \in 0..4 |-> a + 2],
     c |-> [a \in 0..4 |-> 1 - (a % 2)],
     d |-> [a \in 0..4 |-> a % 2]]

\* 1.0 as float64: 0x3FF0 0000 0000 0000
F64_ONE == <<16368, 0, 0, 0>>

\* write_register_value(register, value) on a client with or without a
\* transport object, connected or not
WriteArgs ==
    {[reg |-> r, value |-> v, client |-> cl, connected |-> conn] :
        r \in {x \in ProbeRegisters : x.datatype # "float64"},
        v \in {-1, 0, 1, 70000}, cl \in {0, 1}, conn \in BOOLEAN}

\* the same for a float64 register and 1.0
WriteArgsFloat64 ==
    {[reg |-> r, value |-> F64_ONE, client |-> cl, connected |-> conn] :
        r \in {x \in ProbeRegisters : x.datatype = "float64" /\ x.type = "holding"},
        cl \in {0, 1}, conn \in BOOLEAN}

\* an integer datatype, a byte order, a value to encode and words to decode
\* (as many as the datatype has), at the default scale
IntegerTypes == {"uint16", "int16", "uint32", "int32", "uint64", "int64"}

ByteOrderArgs ==
    UNION {[datatype : {dt}, byte_order : BYTE_ORDERS,
            value : {-2, 0, 1, 65536, 70000},
            words : IF DATATYPES(dt) = 1
                    THEN [1..1 -> {0, 1, 65535}]
                    ELSE [1..DATATYPES(dt) -> {0, 1, 2}]] : dt \in IntegerTypes}

(***************************************************************************)
(* encode_value on integers of any size.  A Python int is a sign and a     *)
(* magnitude, here in binary with the most significant bit first and no    *)
(* leading zero (<< >> is 0).  "value / scale" is a float division, at     *)
(* scale 1.0 too: the integer goes through a double before int() and       *)
(* struct.pack see it.                                                     *)
(***************************************************************************)
\* the n low bits of a word, most significant first
RECURSIVE WordBits(_, _)
WordBits(word, n) ==
    IF n = 0 THEN << >> ELSE Append(WordBits(word \div 2, n - 1), word % 2)

RECURSIVE Strip(_)
Strip(bits) == IF bits # << >> /\ bits[1] = 0 THEN Strip(Tail(bits)) ELSE bits

RECURSIVE BitsOfWords(_)
BitsOfWords(words) ==
    IF words = << >> THEN << >>
    ELSE WordBits(words[1], 16) \o BitsOfWords(Tail(words))

\* the integer of a sign and a magnitude given by its 16-bit words
Wide(neg, words) == [neg |-> neg, bits |-> Strip(BitsOfWords(words))]

\* the magnitude plus one
RECURSIVE Increment(_)
Increment(bits) ==
    IF bits = << >> THEN <<1>>
    ELSE IF bits[Len(bits)] = 0 THEN [bits EXCEPT ![Len(bits)] = 1]
    ELSE Append(Increment(SubSeq(bits, 1, Len(bits) - 1)), 0)

Zeros(n) == [j \in 1..n |-> 0]

\* the slip of an integer division: "value // scale" keeps every bit
int_of_float_exact(w) == w

\* int(value / 1.0): the nearest double, 53 significant bits, ties to even
int_of_float(w) ==
    IF Len(w.bits) <= 53 THEN w
    ELSE LET keep == SubSeq(w.bits, 1, 53)
             rest == SubSeq(w.bits, 54, Len(w.bits))
             sticky == \E j \in 2..Len(rest) : rest[j] = 1
             up == rest[1] = 1 /\ (sticky \/ keep[53] = 1)
         IN [neg |-> w.neg,
             bits |-> (IF up THEN Increment(keep) ELSE keep) \o Zeros(Len(rest))]

\* the range check of struct.pack for a signed or unsigned format of n bits
struct_fits(signed, n, w) ==
    IF signed
    THEN Len(w.bits) < n \/ (w.neg /\ w.bits = <<1>> \o Zeros(n - 1))
    ELSE (~w.neg \/ w.bits = << >>) /\ Len(w.bits) <= n

\* the n low bits of the two's complement of w
LowBits(bits, n) ==
    IF Len(bits) >= n THEN SubSeq(bits, Len(bits) - n + 1, Len(bits))
    ELSE Zeros(n - Len(bits)) \o bits

TwosComplement(w, n) ==
    LET m == LowBits(w.bits, n)
    IN IF w.neg THEN LowBits(Increment([j \in 1..n |-> 1 - m[j]]), n) ELSE m

RECURSIVE BitsValue(_)
BitsValue(bits) ==
    IF bits = << >> THEN 0
    ELSE 2 * BitsValue(SubSeq(bits, 1, Len(bits) - 1)) + bits[Len(bits)]

\* struct.unpack(">H...", raw): the words of n bits, most significant first
WordsOfBits(bits) ==
    [k \in 1..(Len(bits) \div 16) |-> BitsValue(SubSeq(bits, 16 * k - 15, 16 * k))]

\* encode_value(value, datatype, 1.0, byte_order) for an integer datatype;
\* ok = FALSE is struct.error
encode_value_wide(value, datatype, byte_order) ==
    LET scaled == int_of_float(value)
        pack(signed, n) ==
            IF struct_fits(signed, n, scaled)
            THEN [ok |-> TRUE, regs |-> WordsOfBits(TwosComplement(scaled, n))]
            ELSE [ok |-> FALSE, regs |-> << >>]
        regs ==
          CASE datatype = "uint16" ->
                 [ok |-> TRUE, regs |-> WordsOfBits(TwosComplement(scaled, 16))]
            [] datatype = "int16"  -> pack(TRUE, 16)
            [] datatype = "uint32" -> pack(FALSE, 32)
            [] datatype = "int32"  -> pack(TRUE, 32)
            [] datatype = "uint64" -> pack(FALSE, 64)
            [] datatype = "int64"  -> pack(TRUE, 64)
            [] OTHER -> [ok |-> TRUE, regs |-> WordsOfBits(TwosComplement(scaled, 16))]
    IN IF regs.ok
       THEN [ok |-> TRUE, regs |-> _reorder_registers(regs.regs, byte_order)]
       ELSE regs

\* integers at and beyond the ends of the ranges, by name
WideValues ==
    { [name |-> "-1",       value |-> Wide(TRUE,  <<1>>)],
      [name |-> "32767",    value |-> Wide(FALSE, <<32767>>)],
      [name |-> "-32769",   value |-> Wide(TRUE,  <<32769>>)],
      [name |-> "70000",    value |-> Wide(FALSE, <<1, 4464>>)],
      [name |-> "-2^31",    value |-> Wide(TRUE,  <<32768, 0>>)],
      [name |-> "2^31",     value |-> Wide(FALSE, <<32768, 0>>)],
      [name |-> "-2^31-1",  value |-> Wide(TRUE,  <<32768, 1>>)],
      [name |-> "2^32-1",   value |-> Wide(FALSE, <<65535, 65535>>)],
      [name |-> "2^32",     value |-> Wide(FALSE, <<1, 0, 0>>)],
      [name |-> "2^53+1",   value |-> Wide(FALSE, <<32, 0, 0, 1>>)],
      [name |-> "2^63",     value |-> Wide(FALSE, <<32768, 0, 0, 0>>)],
      [name |-> "-2^63-1",  value |-> Wide(TRUE,  <<32768, 0, 0, 1>>)],
      [name |-> "2^64",     value |-> Wide(FALSE, <<1, 0, 0, 0, 0>>)] }

EncodeArgs ==
    {[name |-> w.name, value |-> w.value, datatype |-> dt, byte_order |-> o] :
        w \in WideValues, dt \in IntegerTypes, o \in {"big", "little"}}

InitCodec ==
    /\ register_map = NoMap
    /\ InitClient
    /\ boot = NoBoot
    /\ NoSim
    /\ \/ \E a \in ByteOrderArgs :
            probe = [fn |-> "byte_order", args |-> a, done |-> FALSE]
       \/ \E a \in {x \in RoundTripArgs : x.value \in CodecValues(x.datatype)} :
            probe = [fn |-> "roundtrip", args |-> a, done |-> FALSE]
       \/ \E a \in ReorderArgs :
            probe = [fn |-> "reorder", args |-> a, done |-> FALSE]
       \/ \E a \in RegisterDocs :
            probe = [fn |-> "register", args |-> a.doc, done |-> FALSE]
       \/ \E a \in CatalogueDocs :
            probe = [fn |-> "catalogue", args |-> a, done |-> FALSE]
       \/ \E r \in ProbeRegisters :
            probe = [fn |-> "read", args |-> r, done |-> FALSE]
       \/ \E a \in WriteArgs :
            probe = [fn |-> "write", args |-> a, done |-> FALSE]
       \/ \E a \in WriteArgsFloat64 :
            probe = [fn |-> "write", args |-> a, done |-> FALSE]
       \/ \E a \in EncodeArgs :
            probe = [fn |-> "encode", args |-> a, done |-> FALSE]

CodecFrame ==
    UNCHANGED <<register_map, clientVars, loopVars, actVars, netVars, store,
                stopCalled, boot, simVars>>

\* the value handed to encode_value, as decode_value would return it
AsValue(dt, v) == IF dt = "bool" THEN BoolVal(v # 0) ELSE IntVal(v)

\* decode_value(encode_value(v, dt, scale, order), dt, scale, order)
ApplyRoundTrip ==
    /\ probe.fn = "roundtrip"
    /\ ~probe.done
    /\ LET a == probe.args
           enc == encode_value(a.value, a.datatype, a.scale, a.byte_order)
       IN probe' = [fn |-> "roundtrip", args |-> a, done |-> TRUE,
                    raised |-> ~enc.ok,
                    out |-> IF enc.ok
                            THEN decode_value(enc.regs, a.datatype, a.scale,
                                              a.byte_order)
                            ELSE None]
    /\ CodecFrame

\* _reorder_registers(registers, byte_order)
ApplyReorder ==
    /\ probe.fn = "reorder"
    /\ ~probe.done
    /\ probe' = [fn |-> "reorder", args |-> probe.args, done |-> TRUE,
                 out |-> _reorder_registers(probe.args.registers,
                                            probe.args.byte_order),
                 decode |-> _reorder_registers_for(probe.args.registers,
                                                   probe.args.byte_order, TRUE),
                 encode |-> _reorder_registers_for(probe.args.registers,
                                                   probe.args.byte_order, FALSE),
                 twice |-> _reorder_registers(
                              _reorder_registers(probe.args.registers,
                                                 probe.args.byte_order),
                              probe.args.byte_order)]
    /\ CodecFrame

\* Register(...) as from_dict constructs it
ApplyRegister ==
    /\ probe.fn = "register"
    /\ ~probe.done
    /\ probe' = [fn |-> "register", args |-> probe.args, done |-> TRUE,
                 out |-> PostInit(RegisterArgs(probe.args))]
    /\ CodecFrame

\* read_register_value(register) against the device: its transport read and
\* what it returns
ApplyReadValue ==
    /\ probe.fn = "read"
    /\ ~probe.done
    /\ probe' = [fn |-> "read", args |-> probe.args, done |-> TRUE,
                 call |-> read_register_value(probe.args),
                 out |-> ReadValue(probe.args, ProbeStore)]
    /\ CodecFrame

\* write_register_value(register, value): the call it makes and whether
\* the call reaches the transport
ApplyWriteValue ==
    /\ probe.fn = "write"
    /\ ~probe.done
    /\ LET a == probe.args
           op == [kind |-> "write_value", name |-> "", reg |-> a.reg,
                  value |-> a.value]
       IN probe' = [fn |-> "write", args |-> a, done |-> TRUE,
                    call |-> WireWrite(op),
                    issue |-> Issue(op, a.client, a.connected)]
    /\ CodecFrame

\* encode_value(value, datatype, byte_order=...) and
\* decode_value(words, datatype, byte_order=...)
ApplyByteOrder ==
    /\ probe.fn = "byte_order"
    /\ ~probe.done
    /\ LET a == probe.args
       IN probe' = [fn |-> "byte_order", args |-> a, done |-> TRUE,
                    enc |-> encode_value(a.value, a.datatype, 1, a.byte_order),
                    dec |-> decode_value(a.words, a.datatype, 1, a.byte_order)]
    /\ CodecFrame

\* RegisterMap.from_dict on a document, then the lookups on the catalogue
ApplyCatalogue ==
    /\ probe.fn = "catalogue"
    /\ ~probe.done
    /\ LET loaded == from_file(probe.args)
       IN probe' = [fn |-> "catalogue", args |-> probe.args, done |-> TRUE,
                    ok |-> loaded.ok,
                    map |-> loaded.map,
                    writable |-> writable_registers(loaded.map),
                    found |-> [n \in LookupNames |-> get_by_name(loaded.map, n)]]
    /\ CodecFrame

\* encode_value(value, datatype, byte_order=...) and, on the same integer
\* where it is within 32 bits, the encode_value of the other
\* specifications
ApplyEncode ==
    /\ probe.fn = "encode"
    /\ ~probe.done
    /\ LET a == probe.args
       IN probe' = [fn |-> "encode", args |-> a, done |-> TRUE,
                    out |-> encode_value_wide(a.value, a.datatype, a.byte_order),
                    narrow |->
                      IF Len(a.value.bits) < 32
                      THEN encode_value((IF a.value.neg THEN -1 ELSE 1)
                                          * BitsValue(a.value.bits),
                                        a.datatype, 1, a.byte_order)
                      ELSE encode_value_wide(a.value, a.datatype, a.byte_order)]
    /\ CodecFrame

NextCodec ==
    \/ ApplyEncode
    \/ ApplyByteOrder
    \/ ApplyWriteValue
    \/ ApplyReadValue
    \/ ApplyCatalogue
    \/ ApplyRoundTrip
    \/ ApplyReorder
    \/ ApplyRegister

SpecCodec == InitCodec /\ [][NextCodec]_vars

(***************************************************************************)
(* The claims.                                                             *)
(***************************************************************************)
\* the register a read of the tick was for, and the catalogue in flat order
RegAt(r) == register_map.events[r.g].regs[r.i]
FlatRegisters == Registers(register_map)

\* the fields group g has accumulated so far in the tick
TickValues(g) ==
    IF g = pg /\ pc # "log"
    THEN event_results
    ELSE LET hit == SelectSeq(results,
                              LAMBDA e : e.event = register_map.events[g].event)
         IN IF hit = << >> THEN EmptyDict ELSE hit[1].values

\* C1: write_register_value on a register whose writable flag is false
\* (input and discrete_input registers among them) returns failure for every
\* value and in every connection state, is never in a transport call, and
\* the step leaves the device store, the connection state, the transport and
\* the counters as they were.
C1_NonWritableRejected ==
    /\ [](apc # "idle" /\ aop.kind = "write_value" => aop.reg.writable)
    /\ [][(aresult' # aresult /\ aresult'.op.kind = "write_value"
           /\ ~aresult'.op.reg.writable)
          => /\ aresult'.outcome = "failure"
             /\ apc = "idle" /\ apc' = "idle"
             /\ UNCHANGED <<store, connected, client, tstate, inflight,
                            running, poll_count, error_count>>]_vars

\* a write of an unencodable value to an input register of the catalogue was
\* rejected while the client was connected
C1_Witness ==
    /\ aresult.op.kind = "write_value"
    /\ aresult.op.reg.type = "input"
    /\ aresult.op.value = 70000
    /\ aresult.outcome = "failure"
    /\ connected
    /\ tstate.cur = "up"

\* C2: while the loop runs and is connected, a transport read of the tick
\* that raises an exception whose message contains "connection refused"
\* makes the client disconnected and sends the loop straight back to its
\* head (the connect attempt), with no poll sleep.
C2_ReadExceptionReconnects ==
    [][(pc = "reading" /\ running /\ connected
        /\ ev'.kind \in {"exc", "modbus_exc"}
        /\ MsgConnectionRefused \subseteq ev'.msg)
       => (~connected' /\ pc' = "top")]_vars

\* C3: in a poll tick the registers are read one after the other in
\* catalogue order whatever the earlier reads gave; a register whose read
\* failed is absent from the results of the tick, and every register whose
\* read succeeded is in them with its decoded value, 0 and False included.
C3_ReadFailureNonFatal ==
    (register_map.loaded /\ pc \in {"poll", "reading", "log"}) =>
        /\ \A k \in 1..Len(reads) :
             /\ k <= Len(FlatRegisters)
             /\ RegAt(reads[k]) = FlatRegisters[k]
             /\ IF reads[k].value = None
                THEN RegAt(reads[k]).name \notin DOMAIN TickValues(reads[k].g)
                ELSE /\ RegAt(reads[k]).name \in DOMAIN TickValues(reads[k].g)
                     /\ TickValues(reads[k].g)[RegAt(reads[k]).name] = reads[k].value
                     /\ reads[k].value = ReadValue(RegAt(reads[k]), store)
        /\ IF pc = "log"
           THEN Len(reads) = Len(FlatRegisters)
           ELSE /\ Len(reads) < Len(FlatRegisters)
                /\ CurReg = FlatRegisters[Len(reads) + 1]

\* the first read of a tick failed, the later ones were made, and the False
\* of the coil is in the results
C3_Witness ==
    /\ pc = "log"
    /\ Len(reads) = 4
    /\ reads[1].value = None
    /\ reads[2].value = IntVal(7)
    /\ reads[3].value = BoolVal(FALSE)
    /\ reads[4].value = IntVal(0)
    /\ TickValues(2)["relay"] = BoolVal(FALSE)
    /\ "temp" \notin DOMAIN TickValues(1)

\* C4: a started loop is past its "while" only once stop() has been called,
\* and until then it always has a next step, whatever connects, reads and
\* ticks have failed.
C4_ExitsOnlyAfterStop ==
    /\ (source /\ pc \in {"finally", "done"}) => stopCalled
    /\ (pc \notin {"idle", "done"}) => ENABLED LoopStep

\* after an exception in a tick and a failed connect the loop waits to retry
C4_Witness ==
    /\ source
    /\ ~stopCalled
    /\ error_count = MaxCount
    /\ pc = "retry_sleep"

\* C5: once stop() has been called on a loop that was run, the loop ends,
\* with the transport closed and the connected flag false, given that every
\* transport call and sleep returns.
C5_StopExits ==
    (stopCalled /\ pc # "idle")
    ~> (pc = "done" /\ ~connected /\ tstate.cur \in {"none", "closed"})

\* the loop of a client that had polled has ended on stop(), transport closed
C5_Witness ==
    /\ stopCalled
    /\ pc = "done"
    /\ poll_count >= 1
    /\ ~connected
    /\ tstate.cur = "closed"

\* C6 (as stated, its clause on poll ticks): once stop() has been called the
\* loop begins no poll tick.
C6_NoNewPollTickAfterStop ==
    [][stopCalled => ~(pc \in {"ensure", "connecting"} /\ pc' \in {"poll", "log"})]_vars

\* C6 (amended): once stop() has been called the loop passes its "while" no
\* more; stop() itself touches no call in flight, and a call of the loop in
\* flight ends only by returning to the loop, its transport not closed under
\* it.
C6_StopAtCheckpoint ==
    [][/\ (stopCalled /\ pc = "top") => pc' \in {"top", "finally"}
       /\ (stopCalled' /\ inflight["loop"].op # "none") =>
            /\ (inflight'["loop"] # inflight["loop"]) =>
                 (inflight'["loop"] = NoCall /\ pc' # pc)
            /\ (tstate'.cur = "closed") => (tstate.cur = "closed")]_vars

\* stop() has been called and a read of a tick is still in flight
C6_Witness ==
    /\ stopCalled
    /\ pc = "reading"
    /\ inflight["loop"].op = "read"
    /\ tstate.cur = "up"

\* C7: once stop() has been called on a started client and its loop has
\* ended, no operation connects the client again or issues a transport call.
C7_StoppedIsTerminal ==
    [][(source /\ stopCalled /\ pc = "done" /\ apc = "idle" /\ ~connected)
       => (apc' = "idle" /\ ~connected')]_vars

\* the calls a tick owes the sink, from its reads alone: one per group with
\* a successful read, in catalogue order, with the fields read
ReadsOf(g) == {k \in 1..Len(reads) : reads[k].g = g /\ reads[k].value # None}

FieldsOf(g) ==
    [n \in {RegAt(reads[k]).name : k \in ReadsOf(g)} |->
        reads[CHOOSE k \in ReadsOf(g) :
                /\ RegAt(reads[k]).name = n
                /\ \A j \in ReadsOf(g) : RegAt(reads[j]).name = n => j <= k].value]

RECURSIVE ExpectedCalls(_)
ExpectedCalls(g) ==
    IF g > Len(register_map.events)
    THEN << >>
    ELSE (IF ReadsOf(g) # {}
          THEN << [event |-> register_map.events[g].event, values |-> FieldsOf(g)] >>
          ELSE << >>) \o ExpectedCalls(g + 1)

IsPrefix(s, t) == Len(s) <= Len(t) /\ s = SubSeq(t, 1, Len(s))

\* C8 (as stated): a tick that completes has given the sink exactly one call
\* per group of the catalogue, in catalogue order, each with fields of that
\* group only.
C8_OneCallPerGroup ==
    (pc = "poll_sleep" /\ ev.kind = "logged" /\ source /\ register_map.loaded) =>
        /\ Len(sink) = Len(register_map.events)
        /\ \A g \in 1..Len(sink) :
             /\ sink[g].event = register_map.events[g].event
             /\ DOMAIN sink[g].values \subseteq
                  {register_map.events[g].regs[i].name :
                     i \in 1..Len(register_map.events[g].regs)}

\* C8 (amended): the registers of a tick are read in catalogue order; the
\* sink is given, in catalogue order, at most one call per group, each with
\* exactly the fields of that group that were read; a tick that completes
\* has given one call for every group with a field read, none for the others.
C8_OneCallPerReadGroup ==
    [][(pc = "log" /\ pc' # "log") =>
         /\ \A k \in 1..Len(reads) : RegAt(reads[k]) = FlatRegisters[k]
         /\ IF source
            THEN /\ IsPrefix(sink', ExpectedCalls(1))
                 /\ (ev'.kind = "logged") => sink' = ExpectedCalls(1)
            ELSE sink' = << >>]_vars

\* a tick completed in which no register of the first group could be read:
\* the sink got the one call of the second group
C8_Witness ==
    /\ pc = "poll_sleep"
    /\ ev.kind = "logged"
    /\ Len(sink) = 1
    /\ sink[1].event = "controls"
    /\ DOMAIN sink[1].values = {"relay", "limit"}

\* C9: the client has at most one read or write request outstanding, the
\* on-demand operations included.
C9_OneOutstandingRequest ==
    Cardinality({p \in Threads : inflight[p].op \in {"read", "write"}}) <= 1

\* C10: a named read or write that ends not found, not writable or in a
\* transport failure returns a result that carries a reason.
C10_FailureCarriesReason ==
    (aresult.op.kind \in {"read_named", "write_named"}
     /\ aresult.outcome \in {"not_found", "not_writable", "failure"})
    => aresult.error

\* C11: an error response to a read of a tick costs that register only: the
\* client stays connected and counts no error, the transport is not closed,
\* the tick goes on with the next register, and a tick whose last read got
\* an error response is logged, counted and followed by the poll sleep.
C11_ProtocolErrorPerRegister ==
    [][/\ (pc = "reading" /\ ev'.kind = "error") =>
            /\ connected /\ connected'
            /\ error_count' = error_count
            /\ tstate'.cur = tstate.cur
            /\ pc' \in {"poll", "log"}
            /\ reads' = Append(reads, [g |-> pg, i |-> pi, value |-> None])
       /\ (pc = "log" /\ ev.kind = "error" /\ ev'.kind = "logged") =>
            /\ connected /\ connected'
            /\ error_count' = error_count
            /\ pc' = "poll_sleep"]_vars

\* every read of a tick on the two-group catalogue got an error response and
\* the client, still connected, sleeps the poll interval
C11_Witness ==
    /\ pc = "poll_sleep"
    /\ ev.kind = "logged"
    /\ register_map.loaded
    /\ sink = << >>
    /\ connected
    /\ tstate.cur = "up"
    /\ error_count = 0
    /\ poll_count = 1

\* C12: a failed connect attempt of the loop is counted in error_count.
C12_ConnectFailureCounted ==
    [][(pc = "connecting" /\ pc' = "retry_sleep" /\ error_count < MaxCount)
       => error_count' = error_count + 1]_vars

\* C13: a write of an on-demand operation that fails with an exception
\* (its message contains "connection refused", see ActIoDone) leaves the
\* client disconnected.
C13_WriteFailureDisconnects ==
    [][(apc = "io" /\ inflight["act"].op = "write" /\ connected
        /\ aresult'.outcome = "raised")
       => ~connected']_vars

\* C14: when the register-map document fails to load, the entry point never
\* starts the client: it is not running, has no transport and does not poll.
C14_LoadFailureAborts ==
    (boot.state # "entry" /\ ~Loadable(boot.doc)) =>
        /\ ~running
        /\ pc = "idle"
        /\ tstate = NoTransports
        /\ poll_count = 0

\* C15: once the client has written relay1, a read of relay1 returns the
\* value written last, whatever steps of the generator came between.
C15_RelayReadsBack ==
    (simgen # "off" /\ simcli.read.name = "relay1"
     /\ simcli.last["relay1"] # None) =>
        simcli.read.value = simcli.last["relay1"]

\* the holding cells of the setpoint and calibration registers
SetpointCells == (ADDR_VOLTAGE_HIGH + 1)..(ADDR_OFFSET_VAL + 2)

\* C16: no step of the generator changes a holding cell of the setpoint and
\* calibration registers, and a read of a setpoint register the client has
\* written returns the value written last, whatever ticks came between.
C16_SetpointsKept ==
    [][/\ (simgen # "off" /\ simgen' # simgen) =>
            \A a \in SetpointCells : simstore'.h[a] = simstore.h[a]
       /\ (simgen # "off" /\ simcli'.read.name \in
              {"voltage_high_limit", "power_limit", "offset_value"}
           /\ simcli'.last[simcli'.read.name] # None) =>
            simcli'.read.value = simcli'.last[simcli'.read.name]]_vars

\* power_limit read back as -10000 after the generator rewrote the holding
\* table, with the other two setpoint registers written as well
C16_Witness ==
    /\ simgen # "off"
    /\ simcli.read.name = "power_limit"
    /\ simcli.read.value = IntVal(-10000)
    /\ simcli.ticked
    /\ simcli.last["offset_value"] = F32Val(F32_PI)
    /\ simcli.last["voltage_high_limit"] = IntVal(245)

Representable(dt, v) ==
    CASE dt = "bool"   -> v \in {0, 1}
      [] dt = "uint16" -> v >= 0 /\ v <= 65535
      [] dt = "int16"  -> v >= -32768 /\ v <= 32767
      [] dt = "uint32" -> v >= 0
      [] dt = "int32"  -> TRUE

RoundTripDone == probe.fn = "roundtrip" /\ probe.done

C19_ReorderTable ==
    (probe.fn = "reorder" /\ probe.done) =>
        LET w == probe.args.registers
            o == probe.args.byte_order
        IN probe.out =
             CASE Len(w) = 1 -> w
               [] Len(w) = 2 -> IF o = "big" THEN w ELSE <<w[2], w[1]>>
               [] Len(w) = 4 ->
                    CASE o = "big" -> w
                      [] o = "little" -> <<w[4], w[3], w[2], w[1]>>
                      [] o = "big_swap" -> <<w[2], w[1], w[4], w[3]>>
                      [] o = "little_swap" -> <<w[4], w[3], w[2], w[1]>>

\* four different words under big_swap: the pairs are swapped
C19_Witness ==
    /\ probe.fn = "reorder"
    /\ probe.done
    /\ probe.args = [registers |-> <<1, 2, 3, 1>>, byte_order |-> "big_swap"]
    /\ probe.out = <<2, 1, 1, 3>>

\* C20: a Register of type input or discrete_input is not writable whatever
\* writable was supplied; one of type holding or coil is writable when none
\* was supplied.
C20_WritableDerived ==
    (probe.fn = "register" /\ probe.done) =>
        /\ probe.out.type \in {"input", "discrete_input"} => ~probe.out.writable
        /\ (probe.out.type \in {"holding", "coil"}
            /\ "writable" \notin DOMAIN probe.args) => probe.out.writable

\* an input register whose document says writable: true
C20_Witness ==
    /\ probe.fn = "register"
    /\ probe.done
    /\ probe.args = [address |-> 0, name |-> "t", type |-> "input",
                     writable |-> TRUE]
    /\ ~probe.out.writable

CatalogueDone == probe.fn = "catalogue" /\ probe.done

\* the entries of a document in group order, then per-group order
RECURSIVE FlatEntries(_, _)
FlatEntries(doc, g) ==
    IF g > Len(doc) THEN << >> ELSE doc[g].regs \o FlatEntries(doc, g + 1)

\* C21: writable_registers is the catalogue's registers, in order, without
\* those of type input or discrete_input and without no other.
C21_WritableByType ==
    (CatalogueDone /\ probe.ok) =>
        probe.writable =
            SelectSeq(Registers(probe.map),
                      LAMBDA r : r.type \notin {"input", "discrete_input"})

\* C21 (amended): writable_registers is the catalogue's registers, in order,
\* without those of type input or discrete_input and without those whose
\* document entry says writable: false.
C21_WritableByTypeAndFlag ==
    (CatalogueDone /\ probe.ok) =>
        LET entries == FlatEntries(probe.args, 1)
            kept == {i \in 1..Len(entries) :
                       /\ Get(entries[i], "type", "holding")
                             \notin {"input", "discrete_input"}
                       /\ Get(entries[i], "writable", TRUE)}
        IN /\ Len(probe.writable) = Cardinality(kept)
           /\ \A k \in 1..Len(probe.writable) :
                \E i \in kept :
                   /\ Cardinality({j \in kept : j <= i}) = k
                   /\ probe.writable[k] = Registers(probe.map)[i]
                   /\ probe.writable[k].name = entries[i].name
                   /\ probe.writable[k].address = entries[i].address

\* a holding register declared writable: false is left out, the coil of the
\* second group is kept, a discrete input declared writable: true is left out
C21_Witness ==
    /\ CatalogueDone
    /\ probe.ok
    /\ probe.args[1].regs = << [address |-> 2, name |-> "limit", writable |-> FALSE],
                               [address |-> 0, name |-> "door", type |-> "discrete_input",
                                datatype |-> "bool", writable |-> TRUE] >>
    /\ Len(probe.writable) = 1
    /\ probe.writable[1].name = "relay"

\* an entry that makes the construction fail
BadEntry(e) ==
    \/ "address" \notin DOMAIN e
    \/ "name" \notin DOMAIN e
    \/ ("type" \in DOMAIN e
        /\ e.type \notin {"holding", "input", "coil", "discrete_input"})
    \/ ("datatype" \in DOMAIN e
        /\ e.datatype \notin {"bool", "uint16", "int16", "uint32", "int32",
                              "float32", "uint64", "int64", "float64"})
    \/ ("byte_order" \in DOMAIN e
        /\ e.byte_order \notin {"big", "little", "big_swap", "little_swap"})

\* C22: construction fails as a whole when any entry has a type, datatype or
\* byte_order outside its set or lacks address or name; otherwise every
\* register has its entry's fields, with the documented default for each
\* field left out.
C22_AllOrNothing ==
    CatalogueDone =>
        LET entries == FlatEntries(probe.args, 1)
        IN IF \E i \in 1..Len(entries) : BadEntry(entries[i])
           THEN ~probe.ok /\ probe.map = NoMap
           ELSE /\ probe.ok
                /\ probe.map.loaded
                /\ Len(probe.map.events) = Len(probe.args)
                /\ \A g \in 1..Len(probe.args) :
                     /\ probe.map.events[g].event = probe.args[g].event
                     /\ Len(probe.map.events[g].regs) = Len(probe.args[g].regs)
                     /\ \A i \in 1..Len(probe.args[g].regs) :
                          LET e == probe.args[g].regs[i]
                              r == probe.map.events[g].regs[i]
                          IN /\ r.address = e.address
                             /\ r.name = e.name
                             /\ r.type = Get(e, "type", "holding")
                             /\ r.datatype = Get(e, "datatype", "uint16")
                             /\ r.unit = Get(e, "unit", "")
                             /\ r.scale = Get(e, "scale", 1)
                             /\ r.byte_order = Get(e, "byte_order", "big")
                             /\ r.description = Get(e, "description", "")

\* two sound entries are followed by one with a datatype outside the set:
\* no catalogue
C22_Witness ==
    /\ CatalogueDone
    /\ ~probe.ok
    /\ probe.map = NoMap
    /\ probe.args[1].regs = << [address |-> 0, name |-> "temp"],
                               [address |-> 0, name |-> "relay", type |-> "coil",
                                datatype |-> "bool"] >>
    /\ probe.args[2].regs = << [address |-> 0, name |-> "bad", datatype |-> "uint8"] >>

\* the groups that have a register of this name, and the first register of
\* this name in the first of them
GroupsWith(rm, n) ==
    {g \in 1..Len(rm.events) :
        \E i \in 1..Len(rm.events[g].regs) : rm.events[g].regs[i].name = n}

FirstNamed(rm, n) ==
    LET g == CHOOSE x \in GroupsWith(rm, n) : \A y \in GroupsWith(rm, n) : x <= y
        at == {i \in 1..Len(rm.events[g].regs) : rm.events[g].regs[i].name = n}
        i == CHOOSE x \in at : \A y \in at : x <= y
    IN rm.events[g].regs[i]

\* C23: a lookup by name finds nothing for a name no group has, and else the
\* register of that name in the group declared first; a named read returns
\* that register's value and a named write writes that register.
C23_FirstMatchActs ==
    [][/\ \A n \in Names :
            IF GroupsWith(register_map, n) = {}
            THEN get_by_name(register_map, n) = 0
            ELSE /\ get_by_name(register_map, n) # 0
                 /\ Registers(register_map)[get_by_name(register_map, n)]
                      = FirstNamed(register_map, n)
       /\ (apc = "idle" /\ aresult'.op.kind \in {"read_named", "write_named"}
           /\ GroupsWith(register_map, aresult'.op.name) = {}) =>
            aresult'.outcome = "not_found"
       /\ (apc = "io" /\ aop.kind = "read_named" /\ aresult'.outcome = "success") =>
            aresult'.value = ReadValue(FirstNamed(register_map, aop.name), store)
       /\ (apc = "io" /\ aop.kind = "write_named" /\ aresult'.outcome = "success") =>
            store' = ApplyWrite(store,
                        write_register_value(FirstNamed(register_map, aop.name),
                                             aop.value))]_vars

\* "temp" was written by name: the holding register at address 0 of the
\* first group has the value, the one at address 2 of the second has not;
\* and "humidity" was read by name as the input register of the first group
C23_Witness ==
    /\ register_map = from_dict(DupDoc)
    /\ store.h[0] = 1
    /\ store.h[2] = 0
    /\ aresult.op.kind = "read_named"
    /\ aresult.op.name = "humidity"
    /\ aresult.outcome = "success"
    /\ aresult.value = IntVal(7)

\* a step of the loop in which a read of the tick or the logging raised
PollRaised == pc \in {"reading", "log"} /\ ev'.kind \in {"exc", "log_exc"}

\* what the loop does with an exception it takes for a connection loss, and
\* with any other
TakenForLoss == ~connected' /\ pc' = "top"
TakenForOther == connected /\ connected' /\ pc' = "poll_sleep"

InfoReturned == apc = "idle" /\ aresult' # aresult /\ aresult'.op.kind \in InfoKinds

\* C25: get_status, list_registers and list_writable_registers change
\* nothing of the client (connection state, transport objects and their
\* states, counters, catalogue, run flag, device, the loop's position) and
\* put no call in flight; the register count of the status, and the count
\* of list_registers, is the number of registers of the catalogue, 0 with
\* no catalogue.
C25_StatusReadOnly ==
    [][InfoReturned =>
         /\ UNCHANGED <<connected, client, tstate, inflight, poll_count, error_count,
                        register_map, running, source, store, loopVars>>
         /\ apc' = "idle"
         /\ aresult'.op.kind = "get_status" =>
              /\ aresult'.value.registers
                   = (IF register_map.loaded THEN Len(Registers(register_map)) ELSE 0)
              /\ aresult'.value.connected = connected
              /\ aresult'.value.poll_count = poll_count
              /\ aresult'.value.error_count = error_count
         /\ aresult'.op.kind = "list_registers" =>
              aresult'.value.count
                = (IF register_map.loaded THEN Len(Registers(register_map)) ELSE 0)]_vars

\* the status was taken while a read of the second tick was in flight: it
\* reports the four registers, one poll and the connection, and the read is
\* still in flight
C25_Witness ==
    /\ aresult.op.kind = "get_status"
    /\ aresult.value.registers = 4
    /\ aresult.value.connected
    /\ aresult.value.poll_count = 1
    /\ pc = "reading"
    /\ inflight["loop"].op = "read"
    /\ poll_count = 1

\* C26: no step of the client (connect, the reads of a tick, logging, a raw
\* or named read or write, stop, the loop's exit) changes the catalogue: its
\* groups, their registers and every field of them stay as constructed.
C26_CatalogueImmutable ==
    [][register_map' = register_map]_vars

\* the loop has polled, a named write has succeeded and stop has been
\* called; the catalogue is the one constructed from the document
C26_Witness ==
    /\ register_map = from_dict(SmallDoc)
    /\ stopCalled
    /\ poll_count >= 1
    /\ aresult.op.kind = "write_named"
    /\ aresult.outcome = "success"
    /\ store.h[0] = 1

\* a step that starts a poll tick (_poll_registers is entered)
TickStarts == pc \notin {"poll", "reading", "log"} /\ pc' \in {"poll", "log"}

\* C27: a tick starts only from _ensure_connected, at once, when it returned
\* connected.  A failed connect attempt is followed by the retry sleep, the
\* sleep by the loop's test, the test (the client still running) by
\* _ensure_connected, which, the client being disconnected, makes another
\* connect attempt; from the failed attempt to a successful one the client
\* is disconnected and no read is in flight or issued.
C27_PollOnlyAfterConnected ==
    [][/\ TickStarts => (pc \in {"ensure", "connecting"} /\ connected')
       /\ (pc = "ensure" /\ connected' /\ pc' # pc) => TickStarts
       /\ (pc = "connecting" /\ pc' # pc) =>
            IF connected' THEN TickStarts ELSE pc' = "retry_sleep"
       /\ (pc = "retry_sleep" /\ pc' # pc) => pc' = "top"
       /\ (pc = "top" /\ pc' # pc /\ running /\ ~connected) => pc' = "ensure"
       /\ (pc = "ensure" /\ pc' # pc /\ ~connected) =>
            (pc' = "connecting" /\ inflight'["loop"].op = "connect")
       /\ pc' \in {"retry_sleep", "top", "ensure", "connecting"} =>
            inflight'["loop"].op # "read"
       /\ pc' = "retry_sleep" => ~connected'
       /\ (~connected /\ pc \in {"retry_sleep", "top", "ensure"}) => ~connected'
       /\ (inflight["loop"].op # "read" /\ inflight'["loop"].op = "read") =>
            (pc = "poll" /\ connected)]_vars

\* after a tick the connection was lost and the connect attempt that
\* followed failed: the client, still running, sleeps the retry delay
\* disconnected, with no call in flight
C27_Witness ==
    /\ pc = "retry_sleep"
    /\ running
    /\ ~connected
    /\ poll_count = 1
    /\ inflight["loop"] = NoCall

ReadDone == probe.fn = "read" /\ probe.done

\* the word count of a datatype, as the claim lists it
WordCount(dt) ==
    CASE dt \in {"bool", "uint16", "int16"} -> 1
      [] dt \in {"uint32", "int32", "float32"} -> 2
      [] dt \in {"uint64", "int64", "float64"} -> 4

\* C28: the read of a register is one transport read chosen by its type, at
\* its address: a holding or input register is read with the word count of
\* its datatype and decoded from those words; a coil or discrete input is
\* read as one bit whatever its datatype, and the bit is returned as it is,
\* whatever the scale and the byte order.
C28_OneReadByType ==
    ReadDone =>
      LET r == probe.args
          call == probe.call
      IN /\ call.address = r.address
         /\ r.type = "holding" =>
              /\ call.does = "read_holding_registers"
              /\ call.count = WordCount(r.datatype)
              /\ probe.out = decode_value([j \in 1..WordCount(r.datatype) |->
                                              ProbeStore.h[r.address + j - 1]],
                                          r.datatype, r.scale, r.byte_order)
         /\ r.type = "input" =>
              /\ call.does = "read_input_registers"
              /\ call.count = WordCount(r.datatype)
              /\ probe.out = decode_value([j \in 1..WordCount(r.datatype) |->
                                              ProbeStore.i[r.address + j - 1]],
                                          r.datatype, r.scale, r.byte_order)
         /\ r.type = "coil" =>
              /\ call.does = "read_coils"
              /\ call.count = 1
              /\ probe.out = BoolVal(ProbeStore.c[r.address] = 1)
         /\ r.type = "discrete_input" =>
              /\ call.does = "read_discrete_inputs"
              /\ call.count = 1
              /\ probe.out = BoolVal(ProbeStore.d[r.address] = 1)

\* a coil declared with datatype uint32, scale 10 and byte order little was
\* read with one read_coils of one bit, and the bit came back as it is
C28_Witness ==
    /\ ReadDone
    /\ probe.args.type = "coil"
    /\ probe.args.datatype = "uint32"
    /\ probe.args.scale = 10
    /\ probe.args.byte_order = "little"
    /\ probe.args.address = 0
    /\ probe.call = [does |-> "read_coils", table |-> "c", address |-> 0, count |-> 1]
    /\ probe.out = BoolVal(TRUE)

WriteDone == probe.fn = "write" /\ probe.done

\* the one call the claim names for a register and a value
NamedWrite(r, v) ==
    IF r.type = "coil"
    THEN [does |-> "write_coil", table |-> "c", address |-> r.address,
          words |-> <<IF v # 0 THEN 1 ELSE 0>>]
    ELSE LET enc == encode_value(v, r.datatype, r.scale, r.byte_order).regs
         IN [does |-> IF Len(enc) = 1 THEN "write_register" ELSE "write_registers",
             table |-> "h", address |-> r.address, words |-> enc]

\* the value, divided by the scale, is within the range of the datatype
\* (bool and uint16 take every integer, the floats every float)
InRange(r, v) ==
    CASE r.type = "coil" -> TRUE
      [] r.datatype = "int16" ->
           LET s == IF r.scale # 0 THEN TruncDiv(v, r.scale) ELSE v
           IN s >= -32768 /\ s <= 32767
      [] r.datatype \in {"uint32", "uint64"} ->
           (IF r.scale # 0 THEN TruncDiv(v, r.scale) ELSE v) >= 0
      [] OTHER -> TRUE

\* C29 as stated: every write to a writable register issues exactly one
\* transport write call, the one the claim names.
C29_OneWriteCall ==
    (WriteDone /\ probe.args.reg.writable) =>
        /\ probe.issue = "io"
        /\ probe.call = NamedWrite(probe.args.reg, probe.args.value)

\* C29, amended: a write to a writable register, on a connected client and
\* with a value in the range of the datatype, issues exactly one transport
\* write call: write_coil for a coil, write_register when the encoding has
\* one word, and else one write_registers with all the words, as many as
\* the datatype has, at the register's address and in encoded order.
C29_OneWriteCallWhenIssued ==
    (/\ WriteDone
     /\ probe.args.reg.writable
     /\ probe.args.client # 0
     /\ probe.args.connected
     /\ InRange(probe.args.reg, probe.args.value)) =>
        /\ probe.issue = "io"
        /\ probe.call = NamedWrite(probe.args.reg, probe.args.value)
        /\ probe.args.reg.type # "coil" =>
             Len(probe.call.words) = WordCount(probe.args.reg.datatype)

\* 70000 was written to a holding register of datatype uint64 at address 1
\* on a connected client: one write_registers with the four words
C29_Witness ==
    /\ WriteDone
    /\ probe.args.reg.datatype = "uint64"
    /\ probe.args.reg.byte_order = "big"
    /\ probe.args.reg.scale = 1
    /\ probe.issue = "io"
    /\ probe.call = [does |-> "write_registers", table |-> "h", address |-> 1,
                     words |-> <<0, 0, 1, 4464>>]

ByteOrderDone == probe.fn = "byte_order" /\ probe.done

\* C30: for an integer datatype, encoding under a byte order is encoding
\* under big followed by the reordering (and fails when encoding under big
\* fails), and decoding under a byte order is the reordering followed by
\* decoding under big; 65536 as uint32 encodes to <<1, 0>> under big and to
\* <<0, 1>> under big_swap.
C30_ByteOrderIsReordering ==
    ByteOrderDone =>
      LET a == probe.args
          big == encode_value(a.value, a.datatype, 1, "big")
      IN /\ probe.enc.ok = big.ok
         /\ big.ok => probe.enc.regs = _reorder_registers(big.regs, a.byte_order)
         /\ probe.dec = decode_value(_reorder_registers(a.words, a.byte_order),
                                     a.datatype, 1, "big")
         /\ (a.datatype = "uint32" /\ a.value = 65536 /\ a.byte_order = "big") =>
               probe.enc = [ok |-> TRUE, regs |-> <<1, 0>>]
         /\ (a.datatype = "uint32" /\ a.value = 65536 /\ a.byte_order = "big_swap") =>
               probe.enc = [ok |-> TRUE, regs |-> <<0, 1>>]

\* 65536 was encoded as uint32 under big_swap to <<0, 1>>, and the words
\* <<1, 2>> were decoded under big_swap as 2 * 65536 + 1
C30_Witness ==
    /\ ByteOrderDone
    /\ probe.args.datatype = "uint32"
    /\ probe.args.byte_order = "big_swap"
    /\ probe.args.value = 65536
    /\ probe.args.words = <<1, 2>>
    /\ probe.enc.regs = <<0, 1>>
    /\ probe.dec = IntVal(131073)

ReorderDone == probe.fn = "reorder" /\ probe.done

\* how often the word w is in the sequence
Occurrences(seq, w) == Cardinality({i \in 1..Len(seq) : seq[i] = w})

\* C31: for a sequence of one, two or four words and every byte order, the
\* reordered sequence has the same length and the same words as often,
\* reordering it again gives the sequence back, and the result is the same
\* for decode and for encode.
C31_ReorderIsInvolution ==
    ReorderDone =>
        /\ Len(probe.out) = Len(probe.args.registers)
        /\ \A w \in Words :
              Occurrences(probe.out, w) = Occurrences(probe.args.registers, w)
        /\ probe.twice = probe.args.registers
        /\ probe.decode = probe.out
        /\ probe.encode = probe.out

\* four words, two of them equal, under little_swap: reversed, and the
\* same for encode
C31_Witness ==
    /\ ReorderDone
    /\ probe.args = [registers |-> <<1, 2, 3, 1>>, byte_order |-> "little_swap"]
    /\ probe.out = <<1, 3, 2, 1>>
    /\ probe.encode = <<1, 3, 2, 1>>
    /\ probe.twice = <<1, 2, 3, 1>>

\* the guard of the raw reads and writes
NotReady == client = 0 \/ ~connected

\* a read or write of thread p goes to the transport in this step
TransportCall(p) ==
    inflight[p].op \notin {"read", "write"} /\ inflight'[p].op \in {"read", "write"}

\* C32: with the connected flag false or no transport object, a raw read
\* returns None and a raw write returns False without a transport call, and
\* the connection state, the counters and the device stay as they are.  In
\* the loop the raw read is the step at "poll"; in an action the raw call
\* follows the lookups at once or the action's own connect.
C32_RawCallsGuarded ==
    [][/\ (pc = "poll" /\ NotReady /\ loopVars' # loopVars) =>
            /\ reads' = Append(reads, [g |-> pg, i |-> pi, value |-> None])
            /\ UNCHANGED <<inflight, tstate, connected, client, poll_count,
                           error_count, store>>
       /\ (TransportCall("loop") \/ (TransportCall("act") /\ apc = "idle")) => ~NotReady
       /\ (TransportCall("act") /\ apc = "connecting") => (connected' /\ client' # 0)
       /\ (apc = "idle" /\ NotReady /\ aresult' # aresult
           /\ aresult'.op.kind = "write_value" /\ aresult'.outcome # "raised") =>
            /\ aresult'.outcome = "failure"
            /\ aresult'.value = None
            /\ UNCHANGED <<inflight, tstate, connected, client, poll_count,
                           error_count, store>>
       /\ (apc = "connecting" /\ apc' # apc /\ ~connected') =>
            /\ aresult'.outcome = "failure"
            /\ aresult'.value = None
            /\ inflight'["act"] = NoCall
            /\ UNCHANGED <<poll_count, error_count, store>>]_vars

\* the loop, after an action's failed connect in the middle of its tick,
\* skipped the read of its first register: None, with no call in flight,
\* no error counted and the device untouched
C32_Witness ==
    /\ pc = "poll"
    /\ ev = NoEvent
    /\ Len(reads) = 1
    /\ reads[1].value = None
    /\ ~connected
    /\ inflight["loop"] = NoCall
    /\ error_count = 0
    /\ store = InitStore

\* a counter one up, as far as the model counts
OneUp(c) == IF c < MaxCount THEN c + 1 ELSE c

\* a step that ends a poll tick: the last read or the logging returns or
\* raises, and the loop goes to its sleep or back to its top
TickEnds == pc \in {"reading", "log"} /\ pc' \in {"poll_sleep", "top"}

\* C33: no step lowers a counter.  The step that ends a tick raises exactly
\* one of them by one: poll_count when the tick, logging included, went
\* through, error_count when a read or the logging raised.  Every other
\* step, those of a failed connect attempt and its retry sleep among them,
\* leaves both as they are.
C33_OneCountPerTick ==
    [][/\ poll_count' >= poll_count
       /\ error_count' >= error_count
       /\ TickEnds =>
            IF ev'.kind = "logged"
            THEN poll_count' = OneUp(poll_count) /\ error_count' = error_count
            ELSE /\ ev'.kind \in {"exc", "log_exc"}
                 /\ error_count' = OneUp(error_count)
                 /\ poll_count' = poll_count
       /\ ~TickEnds => (poll_count' = poll_count /\ error_count' = error_count)]_vars

\* one tick went through, one was abandoned on an exception, and the
\* connect attempt that followed failed: one poll and one error are counted
C33_Witness ==
    /\ pc = "retry_sleep"
    /\ ~connected
    /\ poll_count = 1
    /\ error_count = 1

\* C34: in every state the connected flag implies a transport object; and
\* at the step in which _ensure_connected returns True (a tick starts) the
\* transport object reports connected and the flag is set.
C34_ConnectedHasTransport ==
    /\ [](connected => client # 0)
    /\ [][TickStarts => (connected' /\ client' # 0 /\ ClientConnected(tstate'))]_vars

\* the loop starts its second tick, _ensure_connected having found the
\* flag set and the transport connected, while an action has a read in
\* flight on the same transport
C34_Witness ==
    /\ pc = "poll"
    /\ reads = << >>
    /\ poll_count = 1
    /\ connected
    /\ client # 0
    /\ tstate.cur = "up"
    /\ apc = "io"

\* C35: between the starts of two consecutive ticks the loop sleeps at
\* least once: a tick that is not the first starts only after a sleep.
AfterATick == poll_count + error_count > 0

C35_SleepBetweenTicks ==
    [][(TickStarts /\ AfterATick) => slept]_vars

\* C35 (amended): a tick that does not end on an exception taken for a
\* connection error is followed by the poll-interval sleep, a failed connect
\* by the retry sleep, and both sleeps are over before the loop goes on; so
\* a tick that is not the first starts without a sleep only when the tick
\* before it was abandoned on a connection error.
C35_SleepUnlessConnectionLoss ==
    [][/\ (TickEnds /\ ~_is_connection_error(ev'.msg)) => pc' = "poll_sleep"
       /\ (TickEnds /\ pc' = "top") => (ev'.kind \in {"exc", "log_exc"} /\ ~connected')
       /\ (pc = "connecting" /\ pc' # pc /\ ~TickStarts) => pc' = "retry_sleep"
       /\ (pc \in {"poll_sleep", "retry_sleep"} /\ pc' # pc) => slept'
       /\ (TickStarts /\ AfterATick /\ ~slept) => error_count > 0]_vars

\* the second tick starts right after the reconnect that followed a
\* connection error of the first: no sleep in between
C35_Witness ==
    /\ pc = "poll"
    /\ reads = << >>
    /\ ~slept
    /\ error_count = 1
    /\ poll_count = 0
    /\ connected

\* C36: at most one transport object is open at a time: no two objects are
\* connected together, and whenever a connect creates a new object the one
\* held before it is not left connected, whichever thread connects.
NewTransport(p) == inflight[p].op # "connect" /\ inflight'[p].op = "connect"

C36_OneOpenTransport ==
    /\ [](~(tstate.cur = "up" /\ tstate.det = "up"))
    /\ [][/\ NewTransport("loop") => tstate'.det # "up"
          /\ NewTransport("act") => tstate.cur # "up"]_vars

\* C37: a register read that raises (an exception the raw read does not turn
\* into None) abandons the tick: no further register of the tick is read,
\* the sink has had and gets no call for the tick, poll_count stays and
\* error_count grows by one.
ReadRaises == pc = "reading" /\ pc' # pc /\ ev'.kind = "exc"

C37_RaisingReadAbandonsTick ==
    [][ReadRaises =>
          /\ pc' \in {"top", "poll_sleep"}
          /\ inflight'["loop"] = NoCall
          /\ results' = << >>
          /\ event_results' = EmptyDict
          /\ sink = << >>
          /\ sink' = << >>
          /\ poll_count' = poll_count
          /\ error_count' = Min(error_count + 1, MaxCount)]_vars

\* the second tick was abandoned on a raising read, the first having been
\* logged: one poll and one error are counted and the sink is empty
C37_Witness ==
    /\ ev.kind = "exc"
    /\ pc \in {"top", "poll_sleep"}
    /\ poll_count = 1
    /\ error_count = 1
    /\ sink = << >>
    /\ results = << >>

\* C38: with every store write call and every served read as one step, a
\* client read of a two-word quantity the generator writes returns both
\* words of one value: the one of some tick, or the zeros the store starts
\* with.
C38_WordsOfOneTick ==
    simcli.name # "" =>
        \E v \in TickSamples \cup {NoValues} :
            /\ simcli.words = WordsOf(simcli.name, v)
            /\ simcli.value = IF simcli.name \in {"energy_total", "uptime"}
                              THEN IntVal(simcli.words[1] * 65536 + simcli.words[2])
                              ELSE F32Val(v.f)

\* a read served in the middle of a tick: the frequency read still has both
\* words of the tick before while voltage_l1 holds the words of this tick
C38_Witness ==
    /\ simcli.name = "frequency"
    /\ simcli.words = float32_to_registers(F32_ONE)
    /\ simgen.values.f = F32_PI
    /\ simgen.at \in 2..9
    /\ simstore.h[ADDR_VOLTAGE_L1 + 1] = float32_to_registers(F32_PI)[1]
    /\ simstore.h[ADDR_VOLTAGE_L1 + 2] = float32_to_registers(F32_PI)[2]

\* C39: an integer outside the range of the datatype is encoded masked to
\* 16 bits for uint16 and makes encode_value fail for int16, uint32, int32,
\* uint64 and int64; in write_register_value the failure comes before any
\* transport write.
EncodeDone == probe.fn = "encode" /\ probe.done

\* the integers of WideValues outside the range of each datatype
Negative == {"-1", "-32769", "-2^31", "-2^31-1", "-2^63-1"}

OutOfRange(dt) ==
    CASE dt = "uint16" -> Negative \cup {"70000", "2^31", "2^32-1", "2^32", "2^53+1",
                                         "2^63", "2^64"}
      [] dt = "int16"  -> {"-32769", "70000", "-2^31", "2^31", "-2^31-1", "2^32-1",
                           "2^32", "2^53+1", "2^63", "-2^63-1", "2^64"}
      [] dt = "uint32" -> Negative \cup {"2^32", "2^53+1", "2^63", "2^64"}
      [] dt = "int32"  -> {"2^31", "-2^31-1", "2^32-1", "2^32", "2^53+1", "2^63",
                           "-2^63-1", "2^64"}
      [] dt = "uint64" -> Negative \cup {"2^64"}
      [] dt = "int64"  -> {"2^63", "-2^63-1", "2^64"}
      [] OTHER -> {}

\* the integers of WideValues modulo 2^16
Masked(name) ==
    CASE name \in {"-1", "-2^31-1", "2^32-1", "-2^63-1"} -> 65535
      [] name \in {"32767", "-32769"} -> 32767
      [] name = "70000" -> 4464
      [] name = "2^53+1" -> 1
      [] OTHER -> 0

C39_OnlyUint16Wraps ==
    /\ EncodeDone =>
         /\ probe.args.datatype = "uint16" =>
              (probe.out.ok /\ probe.out.regs = <<Masked(probe.args.name)>>)
         /\ (probe.args.datatype # "uint16"
             /\ probe.args.name \in OutOfRange(probe.args.datatype)) => ~probe.out.ok
    /\ (/\ WriteDone
        /\ probe.args.reg.writable
        /\ probe.args.reg.type # "coil"
        /\ ~InRange(probe.args.reg, probe.args.value)) =>
           (probe.call.does = "raise" /\ probe.issue = "raised")

====
